---- MODULE Spec2Model ----
(***************************************************************************)
(* A model of the xand graph compiler: the graph IR (Node / Graph), shape  *)
(* inference, evaluation and the four optimization passes.                 *)
(*                                                                         *)
(* Conventions                                                             *)
(*   - a Python list is a sequence; `None` / a raised exception is the     *)
(*     empty sequence <<>> and a present value v is <<v>>;                 *)
(*   - a node object is an integer handle; the per-object fields are       *)
(*     functions from handles;                                             *)
(*   - a tensor is [shape, data] with data a function from 1-based index   *)
(*     tuples to integers;                                                 *)
(*   - a node name "seg1_seg2_<id>" is [parts |-> <<seg1, seg2>>, id].     *)
(***************************************************************************)
EXTENDS Integers, Sequences, FiniteSets, TLC

(***************************************************************************)
(* Bounds of the model.                                                    *)
(***************************************************************************)
\* number of graph-building calls (connect, output declaration) made on a graph
MaxBuildSteps == 4
\* largest axis size of the shapes the operation rules are checked on
MaxDim == 2
\* largest rank of the shapes the operation rules are checked on
MaxRank == 3
\* number of outputs declared on a graph
MaxOutputs == 2
\* the most input nodes a graph declares
MaxInputs == 2
\* the most tensors a call passes, the most names a mapping holds
MaxCallArgs == 2

(***************************************************************************)
(* Python list helpers.                                                    *)
(***************************************************************************)
Contains(s, x) == \E i \in 1..Len(s) : s[i] = x

Count(s, x) == Cardinality({i \in 1..Len(s) : s[i] = x})

IndexOf(s, x) == CHOOSE i \in 1..Len(s) : s[i] = x /\ \A j \in 1..(i - 1) : s[j] # x

\* list.remove(x): drops the first occurrence (callers guard its presence)
Remove(s, x) ==
    LET i == IndexOf(s, x)
    IN  SubSeq(s, 1, i - 1) \o SubSeq(s, i + 1, Len(s))

Range(s) == {s[i] : i \in 1..Len(s)}

\* a bound of a Python slice, clamped to 0..n
SliceBound(n, b) ==
    LET c == IF b < 0 THEN b + n ELSE b
    IN  IF c < 0 THEN 0 ELSE IF c > n THEN n ELSE c

\* s[:b]
PyPrefix(s, b) == SubSeq(s, 1, SliceBound(Len(s), b))

\* s[b:]
PySuffix(s, b) == SubSeq(s, SliceBound(Len(s), b) + 1, Len(s))

\* s[i] = v for a Python index i (callers check -len <= i < len)
PyPos(s, i) == IF i < 0 THEN i + Len(s) + 1 ELSE i + 1

PyIndexOK(s, i) == i >= 0 - Len(s) /\ i < Len(s)

MaxOf(a, b) == IF a >= b THEN a ELSE b

Ones(n) == [i \in 1..n |-> 1]

\* x = v followed by the statements Body(x): v is computed once and named
Bind(v, Body(_)) == CHOOSE y \in {Body(x) : x \in {v}} : TRUE

(***************************************************************************)
(* The tensor kernels the operations delegate to (torch).                  *)
(***************************************************************************)
RECURSIVE Indices(_)
Indices(shape) ==
    IF shape = <<>> THEN {<<>>}
    ELSE {<<i>> \o r : i \in 1..Head(shape), r \in Indices(Tail(shape))}

\* broadcasting of two shapes, aligned at the right: <<shape>> or <<>>
Broadcast(sa, sb) ==
    LET n  == MaxOf(Len(sa), Len(sb))
        pa == Ones(n - Len(sa)) \o sa
        pb == Ones(n - Len(sb)) \o sb
    IN  IF \A i \in 1..n : pa[i] = 1 \/ pb[i] = 1 \/ pa[i] = pb[i]
        THEN <<[i \in 1..n |-> IF pa[i] = 1 THEN pb[i] ELSE pa[i]]>>
        ELSE <<>>

\* the index into an operand of shape `shape` that the broadcast index idx reads
Proj(idx, shape) ==
    LET off == Len(idx) - Len(shape)
    IN  [k \in 1..Len(shape) |-> IF shape[k] = 1 THEN 1 ELSE idx[off + k]]

\* a + b
TorchAdd(a, b) ==
    LET bs == Broadcast(a.shape, b.shape)
    IN  IF bs = <<>> THEN <<>>
        ELSE <<[shape |-> bs[1],
                data  |-> [idx \in Indices(bs[1]) |->
                              a.data[Proj(idx, a.shape)] + b.data[Proj(idx, b.shape)]]]>>

\* torch.matmul(a, b)
TorchMatmul(a, b) ==
    LET ra == Len(a.shape)
        rb == Len(b.shape)
    IN  IF ra = 0 \/ rb = 0 THEN <<>>
        ELSE
        LET sa == IF ra = 1 THEN <<1>> \o a.shape ELSE a.shape
            sb == IF rb = 1 THEN b.shape \o <<1>> ELSE b.shape
            n  == sa[Len(sa)]
            m  == sa[Len(sa) - 1]
            p  == sb[Len(sb)]
            ba == SubSeq(sa, 1, Len(sa) - 2)
            bb == SubSeq(sb, 1, Len(sb) - 2)
            bs == Broadcast(ba, bb)
        IN  IF n # sb[Len(sb) - 1] \/ bs = <<>> THEN <<>>
            ELSE
            LET nb  == Len(bs[1])
                out == bs[1] \o (IF ra = 1 THEN <<>> ELSE <<m>>)
                             \o (IF rb = 1 THEN <<>> ELSE <<p>>)
                Cell(idx) ==
                    LET bi == SubSeq(idx, 1, nb)
                        i  == IF ra = 1 THEN 1 ELSE idx[nb + 1]
                        j  == IF rb = 1 THEN 1 ELSE idx[Len(idx)]
                        A(k) == a.data[IF ra = 1 THEN <<k>> ELSE Proj(bi, ba) \o <<i, k>>]
                        B(k) == b.data[IF rb = 1 THEN <<k>> ELSE Proj(bi, bb) \o <<k, j>>]
                        S[k \in 0..n] == IF k = 0 THEN 0 ELSE S[k - 1] + A(k) * B(k)
                    IN  S[n]
            IN  <<[shape |-> out, data |-> [idx \in Indices(out) |-> Cell(idx)]]>>

\* the swap of positions i and j of a sequence
Swap(s, i, j) ==
    [k \in 1..Len(s) |-> IF k = i THEN s[j] ELSE IF k = j THEN s[i] ELSE s[k]]

\* a.transpose(dim0, dim1)
TorchTranspose(a, dim0, dim1) ==
    LET r  == Len(a.shape)
        lo == IF r = 0 THEN 0 - 1 ELSE 0 - r
        hi == IF r = 0 THEN 0 ELSE r - 1
    IN  IF dim0 < lo \/ dim0 > hi \/ dim1 < lo \/ dim1 > hi THEN <<>>
        ELSE IF r = 0 THEN <<a>>
        ELSE
        LET d0  == IF dim0 < 0 THEN dim0 + r + 1 ELSE dim0 + 1
            d1  == IF dim1 < 0 THEN dim1 + r + 1 ELSE dim1 + 1
            out == Swap(a.shape, d0, d1)
        IN  <<[shape |-> out,
               data  |-> [idx \in Indices(out) |-> a.data[Swap(idx, d0, d1)]]]>>

\* a.unsqueeze(dim)
TorchUnsqueeze(a, dim) ==
    LET r == Len(a.shape)
    IN  IF dim < 0 - (r + 1) \/ dim > r THEN <<>>
        ELSE
        LET d   == IF dim < 0 THEN dim + r + 1 ELSE dim
            out == SubSeq(a.shape, 1, d) \o <<1>> \o SubSeq(a.shape, d + 1, r)
        IN  <<[shape |-> out,
               data  |-> [idx \in Indices(out) |->
                             a.data[SubSeq(idx, 1, d) \o SubSeq(idx, d + 2, r + 1)]]]>>

\* torch.all(t == v)
AllEqual(t, v) == \A idx \in Indices(t.shape) : t.data[idx] = v

\* torch.equal(t, torch.eye(n)) for a matrix t
IsEye(t) ==
    /\ Len(t.shape) = 2
    /\ t.shape[1] = t.shape[2]
    /\ \A idx \in Indices(t.shape) : t.data[idx] = (IF idx[1] = idx[2] THEN 1 ELSE 0)

(***************************************************************************)
(* The operations: forward and infer_shape of Add, Matmul, Unsqueeze and   *)
(* Transpose.  An operation is [name, args].                               *)
(***************************************************************************)
AddForward(tensors) ==
    IF Len(tensors) # 2 THEN <<>> ELSE TorchAdd(tensors[1], tensors[2])

AddInferShape(input_shapes) ==
    IF Len(input_shapes) # 2 THEN <<>>
    ELSE IF Len(input_shapes[1]) # Len(input_shapes[2]) THEN <<>>
    ELSE <<input_shapes[1]>>

MatmulForward(tensors) ==
    IF Len(tensors) # 2 THEN <<>> ELSE TorchMatmul(tensors[1], tensors[2])

\* the batched branch of Matmul.infer_shape
MatmulBatchedShape(shape_a, shape_b) ==
    LET la == Len(shape_a)
        lb == Len(shape_b)
    IN  IF la >= 2 /\ lb >= 2 /\ shape_a[la] # shape_b[lb - 1] THEN <<>>
        ELSE
        LET batch_dims_a == IF la > 2 THEN SubSeq(shape_a, 1, la - 2) ELSE <<>>
            batch_dims_b == IF lb > 2 THEN SubSeq(shape_b, 1, lb - 2) ELSE <<>>
            max_batch_dims == MaxOf(Len(batch_dims_a), Len(batch_dims_b))
            padded_a == Ones(max_batch_dims - Len(batch_dims_a)) \o batch_dims_a
            padded_b == Ones(max_batch_dims - Len(batch_dims_b)) \o batch_dims_b
        IN  IF \E i \in 1..max_batch_dims :
                   padded_a[i] # 1 /\ padded_b[i] # 1 /\ padded_a[i] # padded_b[i]
            THEN <<>>
            ELSE
            LET batch_shape == [i \in 1..max_batch_dims |->
                                   IF padded_a[i] = 1 THEN padded_b[i] ELSE padded_a[i]]
            IN  <<batch_shape \o <<IF la >= 2 THEN shape_a[la - 1] ELSE 1,
                                   IF lb >= 2 THEN shape_b[lb] ELSE 1>> >>

MatmulInferShape(input_shapes) ==
    IF Len(input_shapes) # 2 THEN <<>>
    ELSE
    LET shape_a == input_shapes[1]
        shape_b == input_shapes[2]
        la == Len(shape_a)
        lb == Len(shape_b)
    IN  IF la = 0 \/ lb = 0 THEN <<>>
        ELSE IF la = 1 /\ lb = 1
             THEN IF shape_a[1] # shape_b[1] THEN <<>> ELSE << <<>> >>
        ELSE IF la = 2 /\ lb = 1
             THEN IF shape_a[2] # shape_b[1] THEN <<>> ELSE << <<shape_a[1]>> >>
        ELSE IF la = 1 /\ lb = 2
             THEN IF shape_a[1] # shape_b[1] THEN <<>> ELSE << <<shape_b[2]>> >>
        ELSE IF la = 2 /\ lb = 2
             THEN IF shape_a[2] # shape_b[1] THEN <<>>
                  ELSE << <<shape_a[1], shape_b[2]>> >>
        ELSE MatmulBatchedShape(shape_a, shape_b)

UnsqueezeForward(args, tensors) ==
    IF Len(tensors) # 1 THEN <<>> ELSE TorchUnsqueeze(tensors[1], args.dim)

UnsqueezeInferShape(args, input_shapes) ==
    IF Len(input_shapes) # 1 THEN <<>>
    ELSE
    LET s   == input_shapes[1]
        dim == IF args.dim < 0 THEN args.dim + Len(s) + 1 ELSE args.dim
    IN  <<PyPrefix(s, dim) \o <<1>> \o (IF dim < Len(s) THEN PySuffix(s, dim) ELSE <<>>)>>

TransposeForward(args, tensors) ==
    IF Len(tensors) # 1 THEN <<>>
    ELSE TorchTranspose(tensors[1], args.dim0, args.dim1)

TransposeInferShape(args, input_shapes) ==
    IF Len(input_shapes) # 1 THEN <<>>
    ELSE
    LET input_shape == input_shapes[1]
        r    == Len(input_shape)
        dim0 == IF args.dim0 < 0 THEN args.dim0 + r ELSE args.dim0
        dim1 == IF args.dim1 < 0 THEN args.dim1 + r ELSE args.dim1
    IN  IF dim0 >= r \/ dim1 >= r THEN <<>>
        ELSE IF ~PyIndexOK(input_shape, dim0) \/ ~PyIndexOK(input_shape, dim1) THEN <<>>
        ELSE <<Swap(input_shape, PyPos(input_shape, dim0), PyPos(input_shape, dim1))>>

\* Operation.forward, dispatched on the operation
Forward(op, tensors) ==
    CASE op.name = "add"       -> AddForward(tensors)
      [] op.name = "matmul"    -> MatmulForward(tensors)
      [] op.name = "unsqueeze" -> UnsqueezeForward(op.args, tensors)
      [] op.name = "transpose" -> TransposeForward(op.args, tensors)

\* Operation.infer_shape, dispatched on the operation
InferShape(op, input_shapes) ==
    CASE op.name = "add"       -> AddInferShape(input_shapes)
      [] op.name = "matmul"    -> MatmulInferShape(input_shapes)
      [] op.name = "unsqueeze" -> UnsqueezeInferShape(op.args, input_shapes)
      [] op.name = "transpose" -> TransposeInferShape(op.args, input_shapes)

(***************************************************************************)
(* Node names.  Node.__init__ takes the id from the text after the last    *)
(* underscore; the passes and the name index use the text before it.       *)
(***************************************************************************)
MkName(parts, id) == [parts |-> parts, id |-> id]

\* node.name.rsplit('_', 1)[0]
BaseName(nm) == nm.parts

\* f"{node.name.split('_')[0]}_const_{node.id}"
ConstName(nm) == MkName(<<nm.parts[1], "const">>, nm.id)

(***************************************************************************)
(* Node kinds: Data(type, value) and Operation(name, args).                *)
(***************************************************************************)
NoOp == [name |-> "none", args |-> <<>>]

\* Data.__init__: the shape is taken from the value once
MkData(type, value) ==
    [k |-> "Data", type |-> type, value |-> <<value>>, shape |-> <<value.shape>>, op |-> NoOp]

MkOp(opname, args) ==
    [k |-> "Operation", type |-> "OP", value |-> <<>>, shape |-> <<>>,
     op |-> [name |-> opname, args |-> args]]

IsData(kd) == kd.k = "Data"

IsOperation(kd) == kd.k = "Operation"

IsConstant(kd) == IsData(kd) /\ kd.type = "CONSTANT"

(***************************************************************************)
(* The program state: one Graph and its Node objects.                      *)
(***************************************************************************)
VARIABLES
    nodes,          \* Graph.nodes
    nodes_by_name,  \* Graph.nodes_by_name: base name -> list of nodes
    input_nodes,    \* Graph.input_nodes
    output_nodes,   \* Graph.output_nodes
    name,           \* Node.name
    kind,           \* Node.kind
    inputs,         \* Node.inputs
    outputs,        \* Node.outputs
    shape,          \* Node.shape (memoized, <<>> when None)
    tensor,         \* Node.tensor (memoized, <<>> when None)
    lastOp,         \* the operation that ran last and how it ended
    pc,             \* "build", "ready", a pass name while its loop runs, or "raised"
    steps,          \* number of graph-building calls made
    probe           \* an operation applied to input shapes on its own, and the results

vars == <<nodes, nodes_by_name, input_nodes, output_nodes, name, kind, inputs,
          outputs, shape, tensor, lastOp, pc, steps, probe>>

\* the graph and its nodes as one value
G == [nodes |-> nodes, nodes_by_name |-> nodes_by_name, input_nodes |-> input_nodes,
      output_nodes |-> output_nodes, name |-> name, kind |-> kind, inputs |-> inputs,
      outputs |-> outputs, shape |-> shape, tensor |-> tensor]

Install(g) ==
    /\ nodes' = g.nodes
    /\ nodes_by_name' = g.nodes_by_name
    /\ input_nodes' = g.input_nodes
    /\ output_nodes' = g.output_nodes
    /\ name' = g.name
    /\ kind' = g.kind
    /\ inputs' = g.inputs
    /\ outputs' = g.outputs
    /\ shape' = g.shape
    /\ tensor' = g.tensor

Handles(g) == DOMAIN g.kind

HasKey(g, base) == base \in DOMAIN g.nodes_by_name

\* del d[key]
DelKey(d, key) == [b \in (DOMAIN d) \ {key} |-> d[b]]

\* d[key].append(n), creating the list first when the key is new
IndexAppend(d, key, n) ==
    IF key \in DOMAIN d THEN [d EXCEPT ![key] = Append(@, n)]
    ELSE [b \in (DOMAIN d) \cup {key} |-> IF b = key THEN <<n>> ELSE d[b]]

\* a faulty removal that leaves the entry of n in the index
IndexRemoveKeepsEntry(d, key, n) == d

\* if base in d and n in d[base]: d[base].remove(n); if not d[base]: del d[base]
IndexRemove(d, key, n) ==
    IF key \in DOMAIN d /\ Contains(d[key], n)
    THEN LET l == Remove(d[key], n)
         IN  IF l = <<>> THEN DelKey(d, key) ELSE [d EXCEPT ![key] = l]
    ELSE d

\* Graph.add_node
AddNode(g, n) ==
    [g EXCEPT !.nodes = Append(@, n),
              !.nodes_by_name = IndexAppend(@, BaseName(g.name[n]), n)]

\* Graph.connect
ConnectNodes(g, from_node, to_node) ==
    [g EXCEPT !.outputs[from_node] = Append(@, to_node),
              !.inputs[to_node] = Append(@, from_node)]

\* Graph.clear_shapes
ClearShapes(g) ==
    [g EXCEPT !.shape = [n \in DOMAIN g.shape |-> IF Contains(g.nodes, n) THEN <<>> ELSE @[n]]]

\* Graph.clear_tensors
ClearTensors(g) ==
    [g EXCEPT !.tensor = [n \in DOMAIN g.tensor |-> IF Contains(g.nodes, n) THEN <<>> ELSE @[n]]]

(***************************************************************************)
(* Node.get_shape and Node.get_tensor: recursive, memoizing getters.  Both *)
(* return the memo table as left behind and the result (<<>> if raised).   *)
(***************************************************************************)
RECURSIVE GetShape(_, _, _)
RECURSIVE GetShapes(_, _, _, _)

\* [input_node.get_shape() for input_node in self.inputs], left to right
GetShapes(g, memo, ins, acc) ==
    IF ins = <<>> THEN [memo |-> memo, res |-> <<acc>>]
    ELSE Bind(GetShape(g, memo, Head(ins)), LAMBDA r :
             IF r.res = <<>> THEN [memo |-> r.memo, res |-> <<>>]
             ELSE GetShapes(g, r.memo, Tail(ins), Append(acc, r.res[1])))

GetShape(g, memo, n) ==
    IF memo[n] # <<>> THEN [memo |-> memo, res |-> memo[n]]
    ELSE IF IsData(g.kind[n])
    THEN [memo |-> [memo EXCEPT ![n] = g.kind[n].shape], res |-> g.kind[n].shape]
    ELSE Bind(GetShapes(g, memo, g.inputs[n], <<>>), LAMBDA r :
             IF r.res = <<>> THEN r
             ELSE Bind(InferShape(g.kind[n].op, r.res[1]), LAMBDA s :
                      [memo |-> IF s = <<>> THEN r.memo ELSE [r.memo EXCEPT ![n] = s],
                       res  |-> s]))

RECURSIVE GetTensor(_, _, _)
RECURSIVE GetTensors(_, _, _, _)

\* [input_node.get_tensor() for input_node in self.inputs], left to right
GetTensors(g, memo, ins, acc) ==
    IF ins = <<>> THEN [memo |-> memo, res |-> <<acc>>]
    ELSE Bind(GetTensor(g, memo, Head(ins)), LAMBDA r :
             IF r.res = <<>> THEN [memo |-> r.memo, res |-> <<>>]
             ELSE GetTensors(g, r.memo, Tail(ins), Append(acc, r.res[1])))

GetTensor(g, memo, n) ==
    IF memo[n] # <<>> THEN [memo |-> memo, res |-> memo[n]]
    ELSE IF IsData(g.kind[n])
    THEN [memo |-> [memo EXCEPT ![n] = g.kind[n].value], res |-> g.kind[n].value]
    ELSE Bind(GetTensors(g, memo, g.inputs[n], <<>>), LAMBDA r :
             IF r.res = <<>> THEN r
             ELSE Bind(Forward(g.kind[n].op, r.res[1]), LAMBDA t :
                      [memo |-> IF t = <<>> THEN r.memo ELSE [r.memo EXCEPT ![n] = t],
                       res  |-> t]))

(***************************************************************************)
(* Graph.infer_shapes.                                                     *)
(***************************************************************************)
RECURSIVE InferLoop(_, _, _, _)
\* the work-queue loop: [ok, processed, memo]
InferLoop(g, current_nodes, processed, memo) ==
    IF current_nodes = <<>> THEN [ok |-> TRUE, processed |-> processed, memo |-> memo]
    ELSE LET node == Head(current_nodes)
             rest == Tail(current_nodes)
         IN  IF node \in processed THEN InferLoop(g, rest, processed, memo)
             ELSE LET r == GetShape(g, memo, node)
                  IN  IF r.res = <<>>
                      THEN [ok |-> FALSE, processed |-> processed, memo |-> r.memo]
                      ELSE InferLoop(g, rest \o g.outputs[node],
                                     processed \cup {node} \cup Range(g.inputs[node]),
                                     r.memo)

RECURSIVE ListsOf(_)
\* every enumeration of a finite set
ListsOf(S) ==
    IF S = {} THEN {<<>>}
    ELSE UNION {{<<x>> \o l : l \in ListsOf(S \ {x})} : x \in S}

RECURSIVE SortedList(_)
SortedList(S) ==
    IF S = {} THEN <<>>
    ELSE LET m == CHOOSE x \in S : \A y \in S : x <= y
         IN  <<m>> \o SortedList(S \ {m})

\* the orders in which list(processed) may enumerate the set.  A set of objects
\* is enumerated in hash (address) order, which is arbitrary.  The scans of the
\* passes read only the relative order of the Operation nodes (consteval skips
\* Data nodes, the others look up the add / matmul / transpose lists), so the
\* Operation nodes come in every order and the Data nodes are put first.
ListOrders(g, S) ==
    LET D == {n \in S : IsData(g.kind[n])}
    IN  {SortedList(D) \o l : l \in ListsOf(S \ D)}

RECURSIVE RebuildIndex(_, _, _)
\* the loop that rebuilds nodes_by_name from the node list
RebuildIndex(g, list, d) ==
    IF list = <<>> THEN d
    ELSE RebuildIndex(g, Tail(list), IndexAppend(d, BaseName(g.name[Head(list)]), Head(list)))

\* the traversal of infer_shapes on g: [ok, processed, g] (g as left behind)
InferTraversal(g) ==
    LET g0 == ClearShapes(g)
        r  == InferLoop(g0, g0.input_nodes, {}, g0.shape)
    IN  [ok |-> r.ok, processed |-> r.processed, g |-> [g0 EXCEPT !.shape = r.memo]]

\* the end of infer_shapes once list(processed) came out as `order`
InferFinish(g, order) ==
    [g EXCEPT !.nodes = order,
              !.nodes_by_name = RebuildIndex(g, order, <<>>)]

(***************************************************************************)
(* Steps the four passes share (each pass carries its own copy of them).   *)
(***************************************************************************)
\* the result of a scan: the graph, whether a rewrite was made, whether it raised
Scanned(g, changes_made, raised) ==
    [g |-> g, changes_made |-> changes_made, raised |-> raised]

\* the tensor get_tensor() returns for a Data node
DataTensor(g, n) == IF g.tensor[n] # <<>> THEN g.tensor[n] ELSE g.kind[n].value

RECURSIVE TouchConstants(_, _)
\* the tensors memoized by calling get_tensor() on the constant nodes of a list
TouchConstants(g, ins) ==
    IF ins = <<>> THEN g
    ELSE LET n == Head(ins)
         IN  Bind(IF IsConstant(g.kind[n]) THEN [g EXCEPT !.tensor[n] = DataTensor(g, n)]
                  ELSE g,
                  LAMBDA g1 : TouchConstants(g1, Tail(ins)))

\* a faulty redirection that puts keep where node stood in the inputs of the
\* consumers
RedirectInPlace(g, node, keep, outs) ==
    LET ins == [c \in DOMAIN g.inputs |->
                   [i \in 1..Len(g.inputs[c]) |->
                       IF g.inputs[c][i] = node THEN keep ELSE g.inputs[c][i]]]
    IN  [g |-> [g EXCEPT !.inputs = ins, !.outputs[keep] = @ \o outs, !.outputs[node] = <<>>],
         raised |-> FALSE]

RECURSIVE Redirect(_, _, _, _)
\* for output_node in node.outputs.copy(): node.outputs.remove(output_node);
\*     output_node.inputs.remove(node); graph.connect(keep, output_node)
Redirect(g, node, keep, outs) ==
    IF outs = <<>> THEN [g |-> g, raised |-> FALSE]
    ELSE LET output_node == Head(outs)
         IN  Bind([g EXCEPT !.outputs[node] = Remove(@, output_node)], LAMBDA g1 :
             IF ~Contains(g1.inputs[output_node], node) THEN [g |-> g1, raised |-> TRUE]
             ELSE Bind(ConnectNodes([g1 EXCEPT !.inputs[output_node] = Remove(@, node)],
                                    keep, output_node),
                       LAMBDA g2 : Redirect(g2, node, keep, Tail(outs))))

\* if node in list: list.remove(node)
RemoveIfIn(list, node) == IF Contains(list, node) THEN Remove(list, node) ELSE list

RECURSIVE DropUnused(_, _, _)
\* for node in nodes_to_remove: drop op_node from node.outputs; if that leaves
\* node without outputs, remove node from nodes and from the name index
DropUnused(g, op_node, nodes_to_remove) ==
    IF nodes_to_remove = <<>> THEN g
    ELSE LET node == Head(nodes_to_remove)
         IN  Bind([g EXCEPT !.outputs[node] = RemoveIfIn(@, op_node)], LAMBDA g1 :
             Bind(IF g1.outputs[node] = <<>>
                  THEN [g1 EXCEPT !.nodes = RemoveIfIn(@, node),
                                  !.nodes_by_name = IndexRemove(@, BaseName(g1.name[node]), node)]
                  ELSE g1,
                  LAMBDA g2 : DropUnused(g2, op_node, Tail(nodes_to_remove))))

(***************************************************************************)
(* sum_identity (add_zero.py).                                             *)
(***************************************************************************)
\* is_zero_tensor
IsZeroTensor(g, n) ==
    /\ IsConstant(g.kind[n])
    /\ DataTensor(g, n) # <<>>
    /\ AllEqual(DataTensor(g, n)[1], 0)

\* a faulty rewrite that reports a change and leaves the add node in place
SumIdentityRewriteKeepsNode(g, add_node, node_to_keep) == Scanned(g, TRUE, FALSE)

\* the rewrite of one add node with a zero input
SumIdentityRewrite(g, add_node, node_to_keep) ==
    LET nodes_to_remove == SelectSeq(g.inputs[add_node], LAMBDA n : n # node_to_keep)
        was_output == Contains(g.output_nodes, add_node)
    IN  Bind(Redirect(g, add_node, node_to_keep, g.outputs[add_node]), LAMBDA r :
        IF r.raised THEN Scanned(r.g, FALSE, TRUE)
        ELSE
        Bind(IF was_output /\ ~Contains(r.g.output_nodes, node_to_keep)
             THEN [r.g EXCEPT !.output_nodes = Append(@, node_to_keep)] ELSE r.g, LAMBDA g2 :
        Bind([g2 EXCEPT !.output_nodes = RemoveIfIn(@, add_node)], LAMBDA g3 :
        IF ~Contains(g3.nodes, add_node) THEN Scanned(g3, FALSE, TRUE)
        ELSE
        Bind([g3 EXCEPT !.nodes = Remove(@, add_node)], LAMBDA g4 :
        IF HasKey(g4, <<"add">>) /\ ~Contains(g4.nodes_by_name[<<"add">>], add_node)
        THEN Scanned(g4, FALSE, TRUE)
        ELSE
        Bind([g4 EXCEPT !.nodes_by_name = IndexRemove(@, <<"add">>, add_node)], LAMBDA g5 :
        Scanned(DropUnused(g5, add_node, nodes_to_remove), TRUE, FALSE))))))

RECURSIVE SumIdentityFor(_, _)
\* one scan over the snapshot add_nodes, up to its first rewrite
SumIdentityFor(g, add_nodes) ==
    IF add_nodes = <<>> THEN Scanned(g, FALSE, FALSE)
    ELSE LET add_node == Head(add_nodes)
         IN  IF Len(g.inputs[add_node]) # 2 THEN SumIdentityFor(g, Tail(add_nodes))
             ELSE Bind(SelectSeq(g.inputs[add_node], LAMBDA n : IsZeroTensor(g, n)),
                       LAMBDA zero_inputs :
                  Bind(SelectSeq(g.inputs[add_node], LAMBDA n : ~IsZeroTensor(g, n)),
                       LAMBDA non_zero_inputs :
                  Bind(TouchConstants(g, g.inputs[add_node]), LAMBDA g1 :
                  IF zero_inputs = <<>> THEN SumIdentityFor(g1, Tail(add_nodes))
                  ELSE SumIdentityRewrite(g1, add_node,
                           IF non_zero_inputs # <<>> THEN non_zero_inputs[1]
                           ELSE zero_inputs[1]))))

\* a faulty scan that reads nodes_by_name['add'] without testing for the key
SumIdentityScanNoKeyTest(g) ==
    IF ~HasKey(g, <<"add">>) THEN Scanned(g, FALSE, TRUE)
    ELSE SumIdentityFor(g, g.nodes_by_name[<<"add">>])

\* one iteration of the while loop of sum_identity
SumIdentityScan(g) ==
    IF ~HasKey(g, <<"add">>) THEN Scanned(g, FALSE, FALSE)
    ELSE SumIdentityFor(g, g.nodes_by_name[<<"add">>])

(***************************************************************************)
(* matmul_identity (multiply_one.py).                                      *)
(***************************************************************************)
\* is_one_tensor
IsOneTensor(g, n) ==
    /\ IsConstant(g.kind[n])
    /\ DataTensor(g, n) # <<>>
    /\ LET t == DataTensor(g, n)[1]
       IN  IF Len(t.shape) = 2 THEN IsEye(t) ELSE AllEqual(t, 1)

\* the rewrite of one matmul node with an identity input
MatmulIdentityRewrite(g, matmul_node, node_to_keep) ==
    LET nodes_to_remove == SelectSeq(g.inputs[matmul_node], LAMBDA n : n # node_to_keep)
        was_output == Contains(g.output_nodes, matmul_node)
    IN  Bind(Redirect(g, matmul_node, node_to_keep, g.outputs[matmul_node]), LAMBDA r :
        IF r.raised THEN Scanned(r.g, FALSE, TRUE)
        ELSE
        Bind(IF was_output /\ ~Contains(r.g.output_nodes, node_to_keep)
             THEN [r.g EXCEPT !.output_nodes = Append(@, node_to_keep)] ELSE r.g, LAMBDA g2 :
        Bind([g2 EXCEPT !.output_nodes = RemoveIfIn(@, matmul_node)], LAMBDA g3 :
        IF ~Contains(g3.nodes, matmul_node) THEN Scanned(g3, FALSE, TRUE)
        ELSE
        Bind([g3 EXCEPT !.nodes = Remove(@, matmul_node),
                        !.nodes_by_name = IndexRemove(@, <<"matmul">>, matmul_node)], LAMBDA g4 :
        Scanned(DropUnused(g4, matmul_node, nodes_to_remove), TRUE, FALSE)))))

\* a faulty scan that looks at the first matmul only and rewrites it without
\* the shape guard of the both-identity case
MatmulIdentityForUnguarded(g, matmul_ops) ==
    IF matmul_ops = <<>> THEN Scanned(g, FALSE, FALSE)
    ELSE IF Len(g.inputs[Head(matmul_ops)]) # 2 THEN Scanned(g, FALSE, FALSE)
    ELSE Bind(SelectSeq(g.inputs[Head(matmul_ops)], LAMBDA n : IsOneTensor(g, n)),
              LAMBDA identity_inputs :
         Bind(SelectSeq(g.inputs[Head(matmul_ops)], LAMBDA n : ~IsOneTensor(g, n)),
              LAMBDA non_identity_inputs :
         IF identity_inputs = <<>> THEN Scanned(g, FALSE, FALSE)
         ELSE MatmulIdentityRewrite(g, Head(matmul_ops),
                  IF non_identity_inputs # <<>> THEN non_identity_inputs[1]
                  ELSE identity_inputs[1])))

RECURSIVE MatmulIdentityFor(_, _)
\* one scan over the snapshot matmul_ops, up to its first rewrite
MatmulIdentityFor(g, matmul_ops) ==
    IF matmul_ops = <<>> THEN Scanned(g, FALSE, FALSE)
    ELSE LET matmul_node == Head(matmul_ops)
         IN  IF Len(g.inputs[matmul_node]) # 2 THEN MatmulIdentityFor(g, Tail(matmul_ops))
             ELSE Bind(SelectSeq(g.inputs[matmul_node], LAMBDA n : IsOneTensor(g, n)),
                       LAMBDA identity_inputs :
                  Bind(SelectSeq(g.inputs[matmul_node], LAMBDA n : ~IsOneTensor(g, n)),
                       LAMBDA non_identity_inputs :
                  Bind(TouchConstants(g, g.inputs[matmul_node]), LAMBDA g1 :
                  IF identity_inputs = <<>> THEN MatmulIdentityFor(g1, Tail(matmul_ops))
                  ELSE IF non_identity_inputs # <<>>
                  THEN MatmulIdentityRewrite(g1, matmul_node, non_identity_inputs[1])
                  ELSE
                  LET node_to_keep == identity_inputs[1]
                  IN  Bind(GetShape(g1, g1.shape, node_to_keep), LAMBDA ks :
                      IF ks.res = <<>> THEN Scanned([g1 EXCEPT !.shape = ks.memo], FALSE, TRUE)
                      ELSE
                      Bind(GetShape(g1, ks.memo, matmul_node), LAMBDA ms :
                      Bind([g1 EXCEPT !.shape = ms.memo], LAMBDA g2 :
                      IF ms.res = <<>> THEN Scanned(g2, FALSE, TRUE)
                      ELSE IF ks.res # ms.res THEN MatmulIdentityFor(g2, Tail(matmul_ops))
                      ELSE MatmulIdentityRewrite(g2, matmul_node, node_to_keep)))))))

\* one iteration of the while loop of matmul_identity
MatmulIdentityScan(g) ==
    IF ~HasKey(g, <<"matmul">>) THEN Scanned(g, FALSE, FALSE)
    ELSE MatmulIdentityFor(g, g.nodes_by_name[<<"matmul">>])

(***************************************************************************)
(* transpose_cancelation (cancel_transpose.py).                            *)
(***************************************************************************)
\* the rewrite of a pair first_transpose -> second_transpose
TransposeRewrite(g, first_transpose, second_transpose, original_input) ==
    LET was_output == Contains(g.output_nodes, second_transpose)
    IN  Bind(Redirect(g, second_transpose, original_input, g.outputs[second_transpose]), LAMBDA r :
        IF r.raised THEN Scanned(r.g, FALSE, TRUE)
        ELSE
        Bind([r.g EXCEPT !.outputs[original_input] = RemoveIfIn(@, first_transpose)], LAMBDA g1 :
        Bind(IF was_output /\ ~Contains(g1.output_nodes, original_input)
             THEN [g1 EXCEPT !.output_nodes = Append(@, original_input)] ELSE g1, LAMBDA g2 :
        Bind([g2 EXCEPT !.output_nodes = RemoveIfIn(RemoveIfIn(@, first_transpose), second_transpose),
                        !.nodes = RemoveIfIn(RemoveIfIn(@, first_transpose), second_transpose)],
             LAMBDA g3 :
        IF ~HasKey(g3, <<"transpose">>) THEN Scanned(g3, TRUE, FALSE)
        ELSE
        Bind(RemoveIfIn(RemoveIfIn(g3.nodes_by_name[<<"transpose">>], first_transpose),
                        second_transpose), LAMBDA l :
        Scanned([g3 EXCEPT !.nodes_by_name =
                     IF l = <<>> THEN DelKey(@, <<"transpose">>)
                     ELSE [@ EXCEPT ![<<"transpose">>] = l]],
                TRUE, FALSE))))))

\* a faulty inner loop that cancels a pair whatever else the first transpose feeds
TransposeInputsForShared(g, transpose_node, ins) ==
    IF ins = <<>> \/ ~HasKey(g, <<"transpose">>) THEN Scanned(g, FALSE, FALSE)
    ELSE IF ~Contains(g.nodes_by_name[<<"transpose">>], Head(ins)) \/ g.inputs[Head(ins)] = <<>>
    THEN Scanned(g, FALSE, FALSE)
    ELSE TransposeRewrite(g, Head(ins), transpose_node, g.inputs[Head(ins)][1])

RECURSIVE TransposeInputsFor(_, _, _)
\* the inner loop over the inputs of transpose_node
TransposeInputsFor(g, transpose_node, ins) ==
    IF ins = <<>> THEN Scanned(g, FALSE, FALSE)
    ELSE LET input_node == Head(ins)
         IN  IF ~(HasKey(g, <<"transpose">>)
                  /\ Contains(g.nodes_by_name[<<"transpose">>], input_node))
             THEN TransposeInputsFor(g, transpose_node, Tail(ins))
             ELSE IF Len(g.outputs[input_node]) # 1 \/ g.outputs[input_node][1] # transpose_node
             THEN TransposeInputsFor(g, transpose_node, Tail(ins))
             ELSE IF g.inputs[input_node] = <<>> THEN Scanned(g, FALSE, TRUE)
             ELSE LET original_input == g.inputs[input_node][1]
                  IN  Bind(GetShape(g, g.shape, original_input), LAMBDA os :
                      IF os.res = <<>> THEN Scanned([g EXCEPT !.shape = os.memo], FALSE, TRUE)
                      ELSE
                      Bind(GetShape(g, os.memo, transpose_node), LAMBDA fs :
                      Bind([g EXCEPT !.shape = fs.memo], LAMBDA g2 :
                      IF fs.res = <<>> THEN Scanned(g2, FALSE, TRUE)
                      ELSE IF os.res # fs.res
                      THEN TransposeInputsFor(g2, transpose_node, Tail(ins))
                      ELSE TransposeRewrite(g2, input_node, transpose_node, original_input))))

RECURSIVE TransposeFor(_, _)
\* one scan over the snapshot transpose_nodes, up to its first rewrite
TransposeFor(g, transpose_nodes) ==
    IF transpose_nodes = <<>> THEN Scanned(g, FALSE, FALSE)
    ELSE Bind(TransposeInputsFor(g, Head(transpose_nodes), g.inputs[Head(transpose_nodes)]),
              LAMBDA r :
              IF r.raised \/ r.changes_made THEN r
              ELSE TransposeFor(r.g, Tail(transpose_nodes)))

\* one iteration of the while loop of transpose_cancelation
TransposeCancelationScan(g) ==
    IF ~HasKey(g, <<"transpose">>) THEN Scanned(g, FALSE, FALSE)
    ELSE TransposeFor(g, g.nodes_by_name[<<"transpose">>])

(***************************************************************************)
(* consteval (consteval.py).                                               *)
(***************************************************************************)
\* a Node object that does not exist yet
NewHandle(g) == Cardinality(Handles(g)) + 1

\* Node(name=nm, kind=kd): no edges, nothing memoized
NewNode(g, nm, kd) ==
    LET h == NewHandle(g)
        Ext(f, v) == [n \in Handles(g) \cup {h} |-> IF n = h THEN v ELSE f[n]]
    IN  [g EXCEPT !.name = Ext(g.name, nm), !.kind = Ext(g.kind, kd),
                  !.inputs = Ext(g.inputs, <<>>), !.outputs = Ext(g.outputs, <<>>),
                  !.shape = Ext(g.shape, <<>>), !.tensor = Ext(g.tensor, <<>>)]

\* a faulty loop that removes every input of the folded node from nodes,
\* whatever else the input feeds
DropFoldedInputsAll(g, node, ins) ==
    Scanned([g EXCEPT !.outputs = [c \in DOMAIN g.outputs |->
                                      IF c \in Range(ins)
                                      THEN SelectSeq(g.outputs[c], LAMBDA e : e # node)
                                      ELSE g.outputs[c]],
                      !.nodes = SelectSeq(g.nodes, LAMBDA e : e \notin Range(ins))],
            TRUE, FALSE)

RECURSIVE DropFoldedInputs(_, _, _)
\* for input_node in node.inputs: input_node.outputs.remove(node); an input left
\* without outputs is removed from nodes and from the name index
DropFoldedInputs(g, node, ins) ==
    IF ins = <<>> THEN Scanned(g, TRUE, FALSE)
    ELSE LET input_node == Head(ins)
         IN  IF ~Contains(g.outputs[input_node], node) THEN Scanned(g, FALSE, TRUE)
             ELSE Bind([g EXCEPT !.outputs[input_node] = Remove(@, node)], LAMBDA g1 :
                  Bind(IF g1.outputs[input_node] = <<>>
                       THEN [g1 EXCEPT !.nodes = RemoveIfIn(@, input_node),
                                       !.nodes_by_name =
                                           IndexRemove(@, BaseName(g1.name[input_node]), input_node)]
                       ELSE g1,
                       LAMBDA g2 : DropFoldedInputs(g2, node, Tail(ins))))

\* the folding of one operation node whose inputs are all constants
ConstevalRewrite(g, node) ==
    Bind(TouchConstants(g, g.inputs[node]), LAMBDA ga :
    Bind([i \in 1..Len(ga.inputs[node]) |-> DataTensor(ga, ga.inputs[node][i])],
         LAMBDA input_tensors :
    IF \E i \in 1..Len(input_tensors) : input_tensors[i] = <<>> THEN Scanned(ga, FALSE, TRUE)
    ELSE
    Bind(Forward(ga.kind[node].op, [i \in 1..Len(input_tensors) |-> input_tensors[i][1]]),
         LAMBDA result_tensor :
    IF result_tensor = <<>> THEN Scanned(ga, FALSE, TRUE)
    ELSE
    Bind(NewHandle(ga), LAMBDA const_node :
    Bind(NewNode(ga, ConstName(ga.name[node]), MkData("CONSTANT", result_tensor[1])),
         LAMBDA created :
    Bind(AddNode(created, const_node), LAMBDA gb :
    Bind(IF Contains(gb.output_nodes, node)
         THEN [gb EXCEPT !.output_nodes = Append(Remove(@, node), const_node)]
         ELSE gb, LAMBDA gc :
    Bind(Redirect(gc, node, const_node, gc.outputs[node]), LAMBDA r :
    IF r.raised THEN Scanned(r.g, FALSE, TRUE)
    ELSE
    Bind([r.g EXCEPT !.nodes = RemoveIfIn(@, node),
                     !.nodes_by_name = IndexRemove(@, BaseName(r.g.name[node]), node)],
         LAMBDA gd :
    DropFoldedInputs(gd, node, gd.inputs[node]))))))))))

RECURSIVE ConstevalFor(_, _)
\* one scan over the snapshot list(graph.nodes), up to its first rewrite
ConstevalFor(g, list) ==
    IF list = <<>> THEN Scanned(g, FALSE, FALSE)
    ELSE LET node == Head(list)
         IN  IF ~IsOperation(g.kind[node]) THEN ConstevalFor(g, Tail(list))
             ELSE IF g.inputs[node] # <<>>
                     /\ \A i \in 1..Len(g.inputs[node]) : IsConstant(g.kind[g.inputs[node][i]])
             THEN ConstevalRewrite(g, node)
             ELSE ConstevalFor(g, Tail(list))

\* a faulty scan that folds nothing
ConstevalScanNothing(g) == Scanned(g, FALSE, FALSE)

\* one iteration of the while loop of consteval
ConstevalScan(g) == ConstevalFor(g, g.nodes)

(***************************************************************************)
(* A pass is its scan repeated until a scan makes no change.               *)
(***************************************************************************)
Scan(pass, g) ==
    CASE pass = "consteval"             -> ConstevalScan(g)
      [] pass = "sum_identity"          -> SumIdentityScan(g)
      [] pass = "matmul_identity"       -> MatmulIdentityScan(g)
      [] pass = "transpose_cancelation" -> TransposeCancelationScan(g)

\* a faulty loop that returns after its first iteration
AfterScanReturns(pass, r) == [g |-> r.g, raised |-> r.raised]

RECURSIVE RunPass(_, _)
\* the while loop after one iteration ended as r
AfterScan(pass, r) ==
    IF r.raised THEN [g |-> r.g, raised |-> TRUE]
    ELSE IF r.changes_made THEN RunPass(pass, r.g)
    ELSE [g |-> r.g, raised |-> FALSE]

\* while changes_made: ...   ([g, raised])
RunPass(pass, g) == AfterScan(pass, Scan(pass, g))

Passes == {"consteval", "sum_identity", "matmul_identity", "transpose_cancelation"}

RECURSIVE RunPasses(_, _)
\* the rest of the pipeline after a pass ended as r
AfterPass(list, r) == IF r.raised THEN r ELSE RunPasses(list, r.g)

\* the passes of a list, one after the other, each on the graph the last returned
RunPasses(list, g) ==
    IF list = <<>> THEN [g |-> g, raised |-> FALSE]
    ELSE AfterPass(Tail(list), RunPass(Head(list), g))

\* a faulty pipeline that runs the four passes in the opposite order
OptimizeReversed(g) ==
    RunPasses(<<"transpose_cancelation", "matmul_identity", "sum_identity", "consteval">>, g)

\* optimize (compile.py)
Optimize(g) ==
    RunPasses(<<"consteval", "sum_identity", "matmul_identity", "transpose_cancelation">>, g)

(***************************************************************************)
(* Graph.forward and XandModule.__call__.                                  *)
(***************************************************************************)
\* a faulty loop that stores nothing and accepts every name
SetInputsUnchecked(g, items) == [g |-> g, raised |-> FALSE]

RECURSIVE SetInputs(_, _)
\* the loop that stores the supplied tensors: items is a list of [name, tensor]
SetInputs(g, items) ==
    IF items = <<>> THEN [g |-> g, raised |-> FALSE]
    ELSE Bind(SelectSeq(g.input_nodes, LAMBDA n : g.name[n] = Head(items).name),
              LAMBDA found :
              IF found = <<>> THEN [g |-> g, raised |-> TRUE]
              ELSE IF ~IsData(g.kind[found[1]]) THEN [g |-> g, raised |-> TRUE]
              ELSE SetInputs([g EXCEPT !.kind[found[1]].value = <<Head(items).tensor>>],
                             Tail(items)))

RECURSIVE ForwardLoop(_, _, _, _)
\* the work-queue loop of forward: [ok, memo]
ForwardLoop(g, current_nodes, processed, memo) ==
    IF current_nodes = <<>> THEN [ok |-> TRUE, memo |-> memo]
    ELSE LET node == Head(current_nodes)
             rest == Tail(current_nodes)
         IN  IF node \in processed THEN ForwardLoop(g, rest, processed, memo)
             ELSE Bind(GetTensor(g, memo, node), LAMBDA r :
                      IF r.res = <<>> THEN [ok |-> FALSE, memo |-> r.memo]
                      ELSE ForwardLoop(g, rest \o g.outputs[node], processed \cup {node},
                                       r.memo))

\* outputs[key] = value on a dict kept as a list of [name, tensor]
DictSet(d, key, value) ==
    IF \E i \in 1..Len(d) : d[i].name = key
    THEN [i \in 1..Len(d) |-> IF d[i].name = key THEN [name |-> key, tensor |-> value] ELSE d[i]]
    ELSE Append(d, [name |-> key, tensor |-> value])

\* a faulty lookup that returns the first entry whatever the key
DictGetFirst(d, key) == d[1].tensor

DictGet(d, key) == d[CHOOSE i \in 1..Len(d) : d[i].name = key].tensor

RECURSIVE CollectOutputs(_, _, _, _)
\* for node in self.output_nodes: outputs[node.name] = node.get_tensor()
CollectOutputs(g, memo, list, d) ==
    IF list = <<>> THEN [memo |-> memo, res |-> <<d>>]
    ELSE Bind(GetTensor(g, memo, Head(list)), LAMBDA r :
              IF r.res = <<>> THEN [memo |-> r.memo, res |-> <<>>]
              ELSE CollectOutputs(g, r.memo, Tail(list),
                                  DictSet(d, g.name[Head(list)], r.res[1])))

\* Graph.forward(inputs): [g, res] with res = <<outputs dict>> or <<>> if it raised
GraphForward(g, items) ==
    Bind(ClearTensors(g), LAMBDA g0 :
    IF items = <<>> THEN [g |-> g0, res |-> <<>>]
    ELSE
    Bind(SetInputs(g0, items), LAMBDA si :
    IF si.raised THEN [g |-> si.g, res |-> <<>>]
    ELSE
    Bind(ForwardLoop(si.g, si.g.input_nodes, {}, si.g.tensor), LAMBDA fl :
    IF ~fl.ok THEN [g |-> [si.g EXCEPT !.tensor = fl.memo], res |-> <<>>]
    ELSE
    Bind(CollectOutputs(si.g, fl.memo, si.g.output_nodes, <<>>), LAMBDA co :
    [g |-> [si.g EXCEPT !.tensor = co.memo], res |-> co.res]))))

RECURSIVE InputDict(_, _, _, _)
\* for node, tensor in zip(input_nodes, inputs): input_dict[node.name] = tensor
InputDict(g, ins, tensors, d) ==
    IF ins = <<>> \/ tensors = <<>> THEN d
    ELSE InputDict(g, Tail(ins), Tail(tensors), DictSet(d, g.name[Head(ins)], Head(tensors)))

\* a faulty __call__ that does not validate the number of inputs
ModuleCallUnchecked(g, tensors) ==
    Bind(GraphForward(g, InputDict(g, g.input_nodes, tensors, <<>>)), LAMBDA f :
         [g |-> f.g, res |-> f.res])

\* XandModule.__call__(*inputs): [g, res]; res is <<>> if it raised, else
\* <<[single |-> TRUE, value |-> <<t>>]>> or <<[single |-> FALSE, value |-> <<t1, ...>>]>>
ModuleCall(g, tensors) ==
    IF Len(tensors) # Len(g.input_nodes) THEN [g |-> g, res |-> <<>>]
    ELSE Bind(GraphForward(g, InputDict(g, g.input_nodes, tensors, <<>>)), LAMBDA f :
              IF f.res = <<>> THEN f
              ELSE Bind(f.res[1], LAMBDA out :
                   [g   |-> f.g,
                    res |-> <<IF Len(out) = 1
                              THEN [single |-> TRUE, value |-> <<out[1].tensor>>]
                              ELSE [single |-> FALSE,
                                    value  |-> [i \in 1..Len(f.g.output_nodes) |->
                                                   DictGet(out, f.g.name[f.g.output_nodes[i]])]]>>]))

(***************************************************************************)
(* The graphs explored.  load_config first creates every node (add_node),  *)
(* then connects them; Init is the state between the two, and the connect  *)
(* calls are the Connect actions.                                          *)
(***************************************************************************)
Matrix(a, b, c, d) ==
    [shape |-> <<2, 2>>,
     data  |-> [idx \in Indices(<<2, 2>>) |->
                   IF idx = <<1, 1>> THEN a ELSE IF idx = <<1, 2>> THEN b
                   ELSE IF idx = <<2, 1>> THEN c ELSE d]]

Vector(a, b) ==
    [shape |-> <<2>>, data |-> [idx \in Indices(<<2>>) |-> IF idx = <<1>> THEN a ELSE b]]

\* the sample tensor the graph is compiled with
InputTensor == Matrix(1, 2, 3, 4)

\* the values the constant of a configuration may have: zeros, the identity
\* matrix, a vector of ones
ConstTensors == {Matrix(0, 0, 0, 0), Matrix(1, 0, 0, 1), Vector(1, 1)}

OpAdd == [name |-> "add", args |-> <<>>]
OpMatmul == [name |-> "matmul", args |-> <<>>]
OpTranspose(dim0, dim1) == [name |-> "transpose", args |-> [dim0 |-> dim0, dim1 |-> dim1]]
OpUnsqueeze(dim) == [name |-> "unsqueeze", args |-> [dim |-> dim]]

\* the operations of the three operation nodes of a configuration, in the
\* order the configuration lists them
PoolOps ==
    {<<OpTranspose(0, 1), OpAdd, OpTranspose(0, 1)>>,
     <<OpTranspose(0, 1), OpTranspose(0, 0), OpMatmul>>,
     <<OpMatmul, OpAdd, OpMatmul>>,
     <<OpUnsqueeze(0), OpMatmul, OpAdd>>}

\* a node descriptor of the configuration
Desc(nm, kd, is_input) == [name |-> nm, kind |-> kd, is_input |-> is_input]

OpDesc(op, id) == Desc(MkName(<<op.name>>, id), MkOp(op.name, op.args), FALSE)

\* the configurations: one input, one constant and three operations; and one
\* with two constants, the identity matrix and a vector of ones, and two matmuls
Pools ==
    {<<Desc(MkName(<<"input">>, 0), MkData("INPUT", InputTensor), TRUE),
       Desc(MkName(<<"const">>, 1), MkData("CONSTANT", c), FALSE),
       OpDesc(o[1], 2), OpDesc(o[2], 3), OpDesc(o[3], 4)>>
     : c \in ConstTensors, o \in PoolOps}
    \cup
    {<<Desc(MkName(<<"input">>, 0), MkData("INPUT", InputTensor), TRUE),
       Desc(MkName(<<"const">>, 1), MkData("CONSTANT", Matrix(1, 0, 0, 1)), FALSE),
       Desc(MkName(<<"const">>, 2), MkData("CONSTANT", Vector(1, 1)), FALSE),
       OpDesc(OpMatmul, 3), OpDesc(OpMatmul, 4)>>}

RECURSIVE AddNodes(_, _)
AddNodes(g, list) == IF list = <<>> THEN g ELSE AddNodes(AddNode(g, Head(list)), Tail(list))

\* the graph after load_config created the nodes of a configuration
Loaded(pool) ==
    LET H == 1..Len(pool)
        g0 == [nodes |-> <<>>, nodes_by_name |-> <<>>,
               input_nodes |-> SelectSeq([i \in H |-> i], LAMBDA i : pool[i].is_input),
               output_nodes |-> <<>>,
               name |-> [i \in H |-> pool[i].name], kind |-> [i \in H |-> pool[i].kind],
               inputs |-> [i \in H |-> <<>>], outputs |-> [i \in H |-> <<>>],
               shape |-> [i \in H |-> <<>>], tensor |-> [i \in H |-> <<>>]]
    IN  AddNodes(g0, [i \in H |-> i])

RECURSIVE Wired(_, _)
\* the graph after the connect calls of a list of edges <<from, to>>
Wired(g, edges) ==
    IF edges = <<>> THEN g
    ELSE Wired(ConnectNodes(g, Head(edges)[1], Head(edges)[2]), Tail(edges))

\* the edges load_config has connected already: none, or, for the
\* configuration transpose, add, transpose, the add (listed first) of the input
\* and of the first transpose, and the first transpose of the input
Wirings(pool) ==
    {<<>>} \cup
    (IF /\ pool[3].kind.op.name = "transpose" /\ pool[4].kind.op.name = "add"
        /\ pool[5].kind.op.name = "transpose"
     THEN {<<<<1, 4>>, <<1, 3>>, <<3, 4>>>>}
     ELSE {})

NoProbe == <<>>

Init ==
    /\ \E pool \in Pools :
          \E g \in {Wired(Loaded(pool), w) : w \in Wirings(pool)} :
              /\ nodes = g.nodes /\ nodes_by_name = g.nodes_by_name
              /\ input_nodes = g.input_nodes /\ output_nodes = g.output_nodes
              /\ name = g.name /\ kind = g.kind /\ inputs = g.inputs
              /\ outputs = g.outputs /\ shape = g.shape /\ tensor = g.tensor
    /\ lastOp = "load"
    /\ pc = "build"
    /\ steps = 0
    /\ probe = NoProbe

\* the number of inputs the operation of a node takes
Arity(kd) == IF kd.op.name \in {"add", "matmul"} THEN 2 ELSE 1

\* graph.connect(a, b) while the configuration is being wired: an operation
\* takes its inputs from nodes created before it (so the graph is acyclic), and
\* no more of them than it has operands
Connect(a, b) ==
    /\ pc = "build"
    /\ steps < MaxBuildSteps
    /\ IsOperation(kind[b])
    /\ Len(inputs[b]) < Arity(kind[b])
    /\ a < b
    /\ Install(ConnectNodes(G, a, b))
    /\ lastOp' = "connect"
    /\ steps' = steps + 1
    /\ UNCHANGED <<pc, probe>>

\* graph.output_nodes.append(n): the builder declares an output; a node is
\* declared once (the passes append to output_nodes only what is not in it)
DeclareOutput(n) ==
    /\ pc = "build"
    /\ steps < MaxBuildSteps
    /\ Len(output_nodes) < MaxOutputs
    /\ ~Contains(output_nodes, n)
    /\ Install([G EXCEPT !.output_nodes = Append(@, n)])
    /\ lastOp' = "declare_output"
    /\ steps' = steps + 1
    /\ UNCHANGED <<pc, probe>>

\* graph.infer_shapes()
InferShapes ==
    /\ pc \in {"build", "ready"}
    /\ \E t \in {InferTraversal(G)} :
           IF t.ok
           THEN /\ \E order \in ListOrders(t.g, t.processed) : Install(InferFinish(t.g, order))
                /\ pc' = "ready"
           ELSE /\ Install(t.g)
                /\ pc' = "raised"
    /\ lastOp' = "infer_shapes"
    /\ UNCHANGED <<steps, probe>>

\* one optimization pass, run to its end
RunOnePass(pass) ==
    /\ pc = "ready"
    /\ \E r \in {RunPass(pass, G)} :
           /\ Install(r.g)
           /\ pc' = IF r.raised THEN "raised" ELSE "ready"
    /\ lastOp' = pass
    /\ UNCHANGED <<steps, probe>>

\* optimize(graph): the four passes in the order of the pipeline
OptimizeGraph ==
    /\ pc = "ready"
    /\ \E r \in {Optimize(G)} :
           /\ Install(r.g)
           /\ pc' = IF r.raised THEN "raised" ELSE "ready"
    /\ lastOp' = "optimize"
    /\ UNCHANGED <<steps, probe>>

Next ==
    \/ \E a \in DOMAIN kind, b \in DOMAIN kind : Connect(a, b)
    \/ \E n \in DOMAIN kind : DeclareOutput(n)
    \/ InferShapes
    \/ \E pass \in Passes : RunOnePass(pass)
    \/ OptimizeGraph

Spec == Init /\ [][Next]_vars

(***************************************************************************)
(* The passes taken one iteration of their while loop at a time: pc holds  *)
(* the name of the pass whose loop is running.  A loop that is running     *)
(* takes its next iteration (nothing in the program suspends it), which is *)
(* the weak fairness of ScanStep.                                          *)
(***************************************************************************)
\* a pass is called: changes_made = True, the loop is entered
BeginPass(pass) ==
    /\ pc = "ready"
    /\ pc' = pass
    /\ lastOp' = "begin"
    /\ UNCHANGED <<nodes, nodes_by_name, input_nodes, output_nodes, name, kind, inputs,
                   outputs, shape, tensor, steps, probe>>

\* one iteration of the while loop of the running pass
ScanStep ==
    /\ pc \in Passes
    /\ \E r \in {Scan(pc, G)} :
           /\ Install(r.g)
           /\ pc' = IF r.raised THEN "raised" ELSE IF r.changes_made THEN pc ELSE "ready"
    /\ lastOp' = pc
    /\ UNCHANGED <<steps, probe>>

\* compile(): infer_shapes runs once, on the graph as load_config built it
InferBuilt == pc = "build" /\ InferShapes

NextSteps ==
    \/ \E a \in DOMAIN kind, b \in DOMAIN kind : Connect(a, b)
    \/ \E n \in DOMAIN kind : DeclareOutput(n)
    \/ InferBuilt
    \/ \E pass \in Passes : BeginPass(pass)
    \/ ScanStep

SpecSteps == Init /\ [][NextSteps]_vars /\ WF_vars(ScanStep)

(***************************************************************************)
(* consteval called on a graph as it was built, or after infer_shapes: the *)
(* pass reads tensors only, so it needs no inferred shape.                 *)
(***************************************************************************)
\* consteval(graph) is called: changes_made = True, the loop is entered
BeginFold ==
    /\ pc \in {"build", "ready"}
    /\ pc' = "consteval"
    /\ lastOp' = "begin"
    /\ UNCHANGED <<nodes, nodes_by_name, input_nodes, output_nodes, name, kind, inputs,
                   outputs, shape, tensor, steps, probe>>

NextFold ==
    \/ \E a \in DOMAIN kind, b \in DOMAIN kind : Connect(a, b)
    \/ \E n \in DOMAIN kind : DeclareOutput(n)
    \/ InferBuilt
    \/ BeginFold
    \/ ScanStep

SpecFold == Init /\ [][NextFold]_vars

(***************************************************************************)
(* The operations on their own: forward and infer_shape of one operation   *)
(* applied to the same input shapes.                                       *)
(***************************************************************************)
RECURSIVE ShapesOfRank(_)
\* the shapes of rank r with axis sizes 1..MaxDim
ShapesOfRank(r) ==
    IF r = 0 THEN {<<>>}
    ELSE {<<d>> \o s : d \in 1..MaxDim, s \in ShapesOfRank(r - 1)}

Shapes == UNION {ShapesOfRank(r) : r \in 0..MaxRank}

\* the axis arguments tried: every valid axis and the first invalid one each side
DimArgs == (0 - MaxRank - 1)..MaxRank

\* torch.ones(shape)
OnesTensor(s) == [shape |-> s, data |-> [idx \in Indices(s) |-> 1]]

ProbeOps ==
    {OpAdd, OpMatmul}
        \cup {OpTranspose(d0, d1) : d0 \in DimArgs, d1 \in DimArgs}
        \cup {OpUnsqueeze(d) : d \in DimArgs}

\* the input shapes an operation is applied to
ProbeInputs(op) ==
    IF op.name \in {"add", "matmul"} THEN {<<a, b>> : a \in Shapes, b \in Shapes}
    ELSE {<<a>> : a \in Shapes}

\* the shape of what forward returns: <<shape>>, or <<>> if it raised
ForwardShape(op, input_shapes) ==
    LET t == Forward(op, [i \in 1..Len(input_shapes) |-> OnesTensor(input_shapes[i])])
    IN  IF t = <<>> THEN <<>> ELSE <<t[1].shape>>

InitOps ==
    /\ nodes = <<>> /\ nodes_by_name = <<>> /\ input_nodes = <<>> /\ output_nodes = <<>>
    /\ name = <<>> /\ kind = <<>> /\ inputs = <<>> /\ outputs = <<>>
    /\ shape = <<>> /\ tensor = <<>>
    /\ lastOp = "none"
    /\ pc = "probe"
    /\ steps = 0
    /\ \E op \in ProbeOps : \E s \in ProbeInputs(op) :
          probe = [op |-> op, input_shapes |-> s, applied |-> FALSE,
                   forward |-> <<>>, infer |-> <<>>]

\* op.forward(tensors) and op.infer_shape(input_shapes) on the chosen inputs
ApplyOp ==
    /\ pc = "probe"
    /\ probe.applied = FALSE
    /\ probe' = [probe EXCEPT !.applied = TRUE,
                              !.forward = ForwardShape(probe.op, probe.input_shapes),
                              !.infer = InferShape(probe.op, probe.input_shapes)]
    /\ lastOp' = probe.op.name
    /\ UNCHANGED <<nodes, nodes_by_name, input_nodes, output_nodes, name, kind, inputs,
                   outputs, shape, tensor, pc, steps>>

NextOps == ApplyOp

SpecOps == InitOps /\ [][NextOps]_vars

(***************************************************************************)
(* Vocabulary of the properties.                                           *)
(***************************************************************************)
RECURSIVE Reach(_, _)
\* the nodes reachable from the nodes of S along output edges
Reach(g, S) ==
    LET T == S \cup UNION {Range(g.outputs[n]) : n \in S}
    IN  IF T = S THEN S ELSE Reach(g, T)

\* what calling the compiled module on the sample input returns
Evaluate(g) == ModuleCall(g, <<InputTensor>>).res

\* a step in which a pass, or the whole pipeline, ran on an inferred graph and returned
PassStep == pc = "ready" /\ pc' = "ready" /\ lastOp' \in Passes \cup {"optimize"}

\* the state a pass, or the whole pipeline, returned
AfterPassState == pc = "ready" /\ lastOp \in Passes \cup {"optimize"}

\* number of Operation nodes in `nodes`
OperationCount(g) == Cardinality({i \in 1..Len(g.nodes) : IsOperation(g.kind[g.nodes[i]])})

IsTranspose(kd) == IsOperation(kd) /\ kd.op.name = "transpose"

\* the order of the axes 1..r after a transpose with the arguments args
AxisSwap(perm, args) ==
    LET r  == Len(perm)
        d0 == IF args.dim0 < 0 THEN args.dim0 + r + 1 ELSE args.dim0 + 1
        d1 == IF args.dim1 < 0 THEN args.dim1 + r + 1 ELSE args.dim1 + 1
    IN  Swap(perm, d0, d1)

\* nodes_by_name holds exactly the nodes of `nodes`, each once, under its base name
IndexInSync(g) ==
    /\ \A i \in 1..Len(g.nodes) :
          /\ HasKey(g, BaseName(g.name[g.nodes[i]]))
          /\ Count(g.nodes_by_name[BaseName(g.name[g.nodes[i]])], g.nodes[i]) = 1
    /\ \A key \in DOMAIN g.nodes_by_name :
          /\ g.nodes_by_name[key] # <<>>
          /\ \A i \in 1..Len(g.nodes_by_name[key]) :
                /\ Contains(g.nodes, g.nodes_by_name[key][i])
                /\ BaseName(g.name[g.nodes_by_name[key][i]]) = key

\* nodes, the name index, the edges and output_nodes of two graphs agree
SameStructure(g, h) ==
    /\ g.nodes = h.nodes
    /\ g.nodes_by_name = h.nodes_by_name
    /\ g.inputs = h.inputs
    /\ g.outputs = h.outputs
    /\ g.output_nodes = h.output_nodes

(***************************************************************************)
(* The traversals step by step.  One step is a pop of the work queue, one  *)
(* activation of Node.get_shape / Node.get_tensor reaching a call or a     *)
(* return, or the bookkeeping of the loop after the call returned.  The    *)
(* record `probe` holds the locals: mode ("shape" for infer_shapes,        *)
(* "tensor" for Graph.forward), the work queue, the processed set, the     *)
(* node the loop is computing, the stack of activations [node, acc] (acc:  *)
(* the values the inputs returned so far), the node whose infer_shape /    *)
(* forward the last step invoked, the declared outputs forward has still   *)
(* to collect, and the number of times the infer_shape / forward of each   *)
(* node was invoked.  The memo fields are shape and tensor.                *)
(***************************************************************************)
Memo(mode) == IF mode = "shape" THEN shape ELSE tensor

\* the value a Data node memoizes: kind.shape or kind.value
DataValue(mode, n) == IF mode = "shape" THEN kind[n].shape ELSE kind[n].value

\* self.kind.infer_shape(input_shapes) or self.kind.forward(input_tensors)
Invoke(mode, n, acc) ==
    IF mode = "shape" THEN InferShape(kind[n].op, acc) ELSE Forward(kind[n].op, acc)

\* a faulty get_shape / get_tensor that does not wait for its inputs
AllInputsObtainedAtOnce(n, acc) == TRUE

\* the list comprehension over self.inputs has run through all of them
AllInputsObtained(n, acc) == Len(acc) >= Len(inputs[n])

\* a faulty get_shape / get_tensor that does not store what it computed
MemoizeNothing(mode, n, v) == UNCHANGED <<shape, tensor>>

\* self.shape = v or self.tensor = v on node n
Memoize(mode, n, v) ==
    IF mode = "shape"
    THEN shape' = [shape EXCEPT ![n] = v] /\ UNCHANGED tensor
    ELSE tensor' = [tensor EXCEPT ![n] = v] /\ UNCHANGED shape

\* the stack after its top activation returned v to its caller
Returned(stack, v) ==
    LET rest == SubSeq(stack, 1, Len(stack) - 1)
    IN  IF rest = <<>> THEN rest
        ELSE [rest EXCEPT ![Len(rest)].acc = Append(@, v)]

WalkFrame == <<nodes, nodes_by_name, input_nodes, output_nodes, name, kind, inputs,
               outputs, steps>>

\* infer_shapes() / forward({input_0: sample}) is called: the memo is cleared
\* and the queue is seeded with the input nodes
BeginWalk(mode) ==
    /\ pc = "build"
    /\ \E g \in {IF mode = "shape" THEN ClearShapes(G)
                  ELSE SetInputs(ClearTensors(G),
                                 <<[name |-> name[input_nodes[1]], tensor |-> InputTensor]>>).g} :
           Install(g)
    /\ probe' = [mode |-> mode, queue |-> input_nodes, processed |-> {},
                 current |-> <<>>, stack |-> <<>>, invoked |-> <<>>,
                 collect |-> IF mode = "shape" THEN <<>> ELSE output_nodes,
                 calls |-> [n \in DOMAIN kind |-> 0]]
    /\ pc' = "walk"
    /\ lastOp' = "begin"
    /\ UNCHANGED steps

\* node = current_nodes.pop(0); a processed node is skipped, another one has
\* get_shape() / get_tensor() called on it
PopNode ==
    /\ pc = "walk"
    /\ probe.stack = <<>> /\ probe.current = <<>> /\ probe.queue # <<>>
    /\ LET node == Head(probe.queue)
       IN  probe' = IF node \in probe.processed
                    THEN [probe EXCEPT !.queue = Tail(@), !.invoked = <<>>]
                    ELSE [probe EXCEPT !.queue = Tail(@), !.invoked = <<>>,
                                       !.current = <<node>>,
                                       !.stack = <<[node |-> node, acc |-> <<>>]>>]
    /\ lastOp' = "pop"
    /\ UNCHANGED <<WalkFrame, shape, tensor, pc>>

\* the top activation of get_shape / get_tensor runs to its next call or return
GetStep ==
    /\ pc = "walk"
    /\ probe.stack # <<>>
    /\ LET mode == probe.mode
           top  == probe.stack[Len(probe.stack)]
           n    == top.node
       IN  IF top.acc = <<>> /\ Memo(mode)[n] # <<>>
           THEN \* already computed: return it
                /\ probe' = [probe EXCEPT !.stack = Returned(@, Memo(mode)[n][1]),
                                          !.invoked = <<>>]
                /\ UNCHANGED <<shape, tensor, pc>>
           ELSE IF IsData(kind[n])
           THEN IF DataValue(mode, n) = <<>>
                THEN /\ probe' = [probe EXCEPT !.invoked = <<>>]
                     /\ pc' = "raised"
                     /\ UNCHANGED <<shape, tensor>>
                ELSE /\ Memoize(mode, n, DataValue(mode, n))
                     /\ probe' = [probe EXCEPT !.stack = Returned(@, DataValue(mode, n)[1]),
                                               !.invoked = <<>>]
                     /\ UNCHANGED pc
           ELSE IF ~AllInputsObtained(n, top.acc)
           THEN \* the next input_node.get_shape() / get_tensor()
                /\ probe' = [probe EXCEPT
                                !.stack = Append(@, [node |-> inputs[n][Len(top.acc) + 1],
                                                     acc  |-> <<>>]),
                                !.invoked = <<>>]
                /\ UNCHANGED <<shape, tensor, pc>>
           ELSE \E v \in {Invoke(mode, n, top.acc)} :
                   IF v = <<>>
                   THEN /\ probe' = [probe EXCEPT !.invoked = <<n>>, !.calls[n] = @ + 1]
                        /\ pc' = "raised"
                        /\ UNCHANGED <<shape, tensor>>
                   ELSE /\ Memoize(mode, n, v)
                        /\ probe' = [probe EXCEPT !.stack = Returned(@, v[1]),
                                                  !.invoked = <<n>>, !.calls[n] = @ + 1]
                        /\ UNCHANGED pc
    /\ lastOp' = "get"
    /\ UNCHANGED WalkFrame

\* after the call returned: processed.add(node), (infer_shapes only)
\* processed.update(node.inputs), current_nodes.extend(node.outputs)
MarkProcessed ==
    /\ pc = "walk"
    /\ probe.stack = <<>> /\ probe.current # <<>>
    /\ LET node == probe.current[1]
       IN  probe' = [probe EXCEPT
                       !.processed = @ \cup {node} \cup
                                     (IF probe.mode = "shape" THEN Range(inputs[node]) ELSE {}),
                       !.queue = @ \o outputs[node],
                       !.current = <<>>,
                       !.invoked = <<>>]
    /\ lastOp' = "mark"
    /\ UNCHANGED <<WalkFrame, shape, tensor, pc>>

\* the queue is empty: forward calls get_tensor() on the next declared output
CollectNode ==
    /\ pc = "walk"
    /\ probe.stack = <<>> /\ probe.current = <<>> /\ probe.queue = <<>>
    /\ probe.collect # <<>>
    /\ probe' = [probe EXCEPT !.collect = Tail(@), !.invoked = <<>>,
                              !.stack = <<[node |-> Head(probe.collect), acc |-> <<>>]>>]
    /\ lastOp' = "collect"
    /\ UNCHANGED <<WalkFrame, shape, tensor, pc>>

\* the loops are over: infer_shapes rebuilds nodes and the name index, forward
\* returns the tensors of the declared outputs
EndWalk ==
    /\ pc = "walk"
    /\ probe.stack = <<>> /\ probe.current = <<>> /\ probe.queue = <<>>
    /\ probe.collect = <<>>
    /\ IF probe.mode = "shape"
       THEN /\ \E order \in ListOrders(G, probe.processed) : Install(InferFinish(G, order))
            /\ pc' = "ready"
       ELSE \E co \in {CollectOutputs(G, tensor, output_nodes, <<>>)} :
               /\ Install([G EXCEPT !.tensor = co.memo])
               /\ pc' = IF co.res = <<>> THEN "raised" ELSE "ready"
    /\ probe' = [probe EXCEPT !.invoked = <<>>]
    /\ lastOp' = IF probe.mode = "shape" THEN "infer_shapes" ELSE "forward"
    /\ UNCHANGED steps

NextWalk ==
    \/ \E a \in DOMAIN kind, b \in DOMAIN kind : Connect(a, b)
    \/ \E n \in DOMAIN kind : DeclareOutput(n)
    \/ \E mode \in {"shape", "tensor"} : BeginWalk(mode)
    \/ PopNode
    \/ GetStep
    \/ MarkProcessed
    \/ CollectNode
    \/ EndWalk

SpecWalk == Init /\ [][NextWalk]_vars

(***************************************************************************)
(* Calls.  A graph is built, possibly with a second node appended to       *)
(* input_nodes, inferred, and then the compiled artifact is called on      *)
(* some tensors or Graph.forward on some mapping.  `probe` records the     *)
(* call: [call, args, res].                                                *)
(***************************************************************************)
\* a tensor other than the sample the graph was loaded with
OtherTensor == Matrix(0, 1, 1, 0)

\* a name no node has
UnknownName == MkName(<<"input">>, 9)

\* the sequences without repetition, of at most k elements of S
ArgLists(S, k) == {l \in UNION {[1..m -> S] : m \in 0..k} :
                      \A i \in 1..Len(l), j \in 1..Len(l) : i # j => l[i] # l[j]}

\* the tensor lists a call passes
CallTensors == UNION {[1..m -> {OtherTensor}] : m \in 0..MaxCallArgs}

\* the mappings forward is given: names of the first input node, of the third
\* node of the configuration and of no node, each to a tensor
CallMappings ==
    LET names == {name[input_nodes[1]], name[3], UnknownName}
        order == ArgLists(names, MaxCallArgs)
    IN  {[i \in 1..Len(l) |-> [name |-> l[i], tensor |-> OtherTensor]] : l \in order}

\* graph.input_nodes.append(n): the builder declares another input
DeclareInput(n) ==
    /\ pc = "build"
    /\ steps < MaxBuildSteps
    /\ Len(input_nodes) < MaxInputs
    /\ ~Contains(input_nodes, n)
    /\ Install([G EXCEPT !.input_nodes = Append(@, n)])
    /\ lastOp' = "declare_input"
    /\ steps' = steps + 1
    /\ UNCHANGED <<pc, probe>>

\* XandModule(graph)(*tensors), on the graph compile() inferred
CallModule(tensors) ==
    /\ pc = "ready"
    /\ \E r \in {ModuleCall(G, tensors)} :
           /\ Install(r.g)
           /\ probe' = [call |-> "module", args |-> tensors, res |-> r.res]
    /\ pc' = "called"
    /\ lastOp' = "call"
    /\ UNCHANGED steps

\* graph.forward(mapping), on the graph compile() inferred
CallForward(items) ==
    /\ pc = "ready"
    /\ \E r \in {GraphForward(G, items)} :
           /\ Install(r.g)
           /\ probe' = [call |-> "forward", args |-> items, res |-> r.res]
    /\ pc' = "called"
    /\ lastOp' = "forward"
    /\ UNCHANGED steps

\* the module is called again after a call that returned, with the sample
\* tensor in place of each tensor of the first call
CallAgain ==
    /\ pc = "called"
    /\ probe.call = "module" /\ probe.res # <<>>
    /\ \E tensors \in {[i \in 1..Len(probe.args) |-> InputTensor]} :
       \E r \in {ModuleCall(G, tensors)} :
           /\ Install(r.g)
           /\ probe' = [call |-> "module", args |-> tensors, res |-> r.res]
    /\ pc' = "recalled"
    /\ lastOp' = "call"
    /\ UNCHANGED steps

NextCall ==
    \/ \E a \in DOMAIN kind, b \in DOMAIN kind : Connect(a, b)
    \/ \E n \in DOMAIN kind : DeclareOutput(n)
    \/ \E n \in DOMAIN kind : DeclareInput(n)
    \/ InferBuilt
    \/ \E tensors \in CallTensors : CallModule(tensors)
    \/ \E items \in CallMappings : CallForward(items)
    \/ CallAgain

SpecCall == Init /\ [][NextCall]_vars

(***************************************************************************)
(* The properties.                                                         *)
(***************************************************************************)
\* C1: semantic preservation.  A pass (or the whole pipeline) run on an
\* inferred graph that evaluates on the sample input leaves the tensors
\* returned for the declared outputs as they were.
C1_SemanticPreservation ==
    [][(PassStep /\ output_nodes # <<>> /\ Evaluate(G) # <<>>)
          => Evaluate(G') = Evaluate(G)]_vars

\* C2: edge symmetry.  In every reachable state, for all members a, b of
\* `nodes`, b occurs in a.outputs as often as a occurs in b.inputs.
C2_EdgeSymmetry ==
    \A a \in Range(nodes), b \in Range(nodes) :
        Count(outputs[a], b) = Count(inputs[b], a)

\* C3: name-index synchronisation.  After infer_shapes and after every pass
\* the name index holds exactly the nodes of `nodes`, each once under its base
\* name, with no empty list and no removed node.
C3_NameIndexInSync == pc = "ready" => IndexInSync(G)

\* C3 is exercised: consteval returned, having replaced an operation by a new
\* constant node that is in `nodes`
C3_Witness ==
    /\ pc = "ready"
    /\ lastOp = "consteval"
    /\ \E n \in Range(nodes) : IsConstant(kind[n]) /\ Len(name[n].parts) > 1

\* C4: dead-code invariant.  After a pass on a graph whose declared outputs
\* are in `nodes` and reachable from a declared input, every node in `nodes`
\* is reachable from a declared input along output edges and has a declared
\* output reachable from it.
C4_DeadCode ==
    (/\ AfterPassState
     /\ output_nodes # <<>>
     /\ \A o \in Range(output_nodes) :
            Contains(nodes, o) /\ o \in Reach(G, Range(input_nodes)))
        => \A n \in Range(nodes) :
               /\ n \in Reach(G, Range(input_nodes))
               /\ Reach(G, {n}) \cap Range(output_nodes) # {}

\* C5: shape inference coverage.  After infer_shapes returned on a graph
\* whose reachable operations have all their operands, every node reachable
\* from a declared input along output edges is in `nodes` and has a memoized
\* shape.
C5_InferenceCoverage ==
    (/\ pc = "ready"
     /\ lastOp = "infer_shapes"
     /\ \A n \in Reach(G, Range(input_nodes)) :
            IsOperation(kind[n]) => Len(inputs[n]) = Arity(kind[n]))
        => \A n \in Reach(G, Range(input_nodes)) :
               Contains(nodes, n) /\ shape[n] # <<>>

\* C6: pass idempotence.  Running a pass again on the graph it just returned
\* makes no rewrite, does not raise, and leaves nodes, the name index, the
\* edges and output_nodes unchanged.
C6_PassIdempotent ==
    (pc = "ready" /\ lastOp \in Passes)
        => /\ ~Scan(lastOp, G).changes_made
           /\ ~RunPass(lastOp, G).raised
           /\ SameStructure(RunPass(lastOp, G).g, G)

\* C6 is exercised: sum_identity returned after rewriting an add node, which
\* shows in the zero constant no longer listing the add among its outputs
C6_Witness ==
    /\ pc = "ready"
    /\ lastOp = "sum_identity"
    /\ \E a \in DOMAIN kind, z \in DOMAIN kind :
          /\ IsOperation(kind[a]) /\ kind[a].op.name = "add"
          /\ Contains(inputs[a], z) /\ ~Contains(outputs[z], a)
          /\ ~Contains(nodes, a)

\* C7: pass termination.  Every iteration of a pass that makes a rewrite
\* strictly reduces the number of Operation nodes in `nodes`, and a running
\* pass eventually returns (or raises).
C7_PassTermination ==
    /\ [][(pc \in Passes /\ pc' = pc) => OperationCount(G') < OperationCount(G)]_vars
    /\ ((pc \in Passes) ~> (pc \notin Passes))

\* C7 is exercised: the loop of a pass made a rewrite and goes on to its next scan
C7_Witness == pc \in Passes /\ lastOp = pc

\* C8: transpose cancellation soundness.  When the pass deletes a pair of
\* transposes A -> B, swapping the axes of A's input as A does and then as B
\* does gives back the order of the axes.
C8_CancelledPairInverse ==
    [][(pc = "ready" /\ pc' = "ready" /\ lastOp' = "transpose_cancelation")
          => \A A \in Range(nodes), B \in Range(nodes) :
                 (/\ IsTranspose(kind[A]) /\ IsTranspose(kind[B])
                  /\ inputs[B] = <<A>>
                  /\ inputs[A] # <<>>
                  /\ shape[inputs[A][1]] # <<>>
                  /\ ~Contains(nodes', A) /\ ~Contains(nodes', B))
                 => LET id == [i \in 1..Len(shape[inputs[A][1]][1]) |-> i]
                    IN  AxisSwap(AxisSwap(id, kind[A].op.args), kind[B].op.args) = id]_vars

\* C9: declared outputs stay live.  A pass run on a graph whose declared
\* outputs are all in `nodes` returns a graph whose declared outputs are all
\* in `nodes`.
C9_OutputsStayLive ==
    [][(PassStep /\ \A n \in Range(output_nodes) : Contains(nodes, n))
          => \A n \in Range(output_nodes') : Contains(nodes', n)]_vars

\* C10: shape/value consistency.  Whenever forward succeeds on inputs of
\* given shapes, infer_shape on those shapes succeeds and returns the shape
\* of the tensor forward produced.
C10_ShapeValueConsistent ==
    (probe.applied /\ probe.forward # <<>>)
        => probe.infer = probe.forward

\* the axes torch.matmul contracts differ: the last axis of shape_a against the
\* second-to-last axis of shape_b (the only axis of a rank-1 shape_b)
ContractedDiffer(shape_a, shape_b) ==
    /\ Len(shape_a) >= 1
    /\ Len(shape_b) >= 1
    /\ shape_a[Len(shape_a)] #
           (IF Len(shape_b) = 1 THEN shape_b[1] ELSE shape_b[Len(shape_b) - 1])

\* C11: Matmul inner-dimension check.  For operands of ranks >= 1 whose
\* contracted dimensions differ, Matmul.infer_shape raises and returns no shape.
C11_MatmulInnerDimension ==
    (/\ probe.applied
     /\ probe.op.name = "matmul"
     /\ ContractedDiffer(probe.input_shapes[1], probe.input_shapes[2]))
        => probe.infer = <<>>

\* C12: Add shape check.  Add.infer_shape returns a shape only for two input
\* shapes that are equal; for shapes that differ it raises.
C12_AddShapesEqual ==
    (/\ probe.applied
     /\ probe.op.name = "add"
     /\ probe.input_shapes[1] # probe.input_shapes[2])
        => probe.infer = <<>>

\* C13: out-of-bounds axis indices abort.  Transpose.infer_shape raises when
\* dim0 or dim1 is outside -rank..rank-1, Unsqueeze.infer_shape raises when dim
\* is outside -(rank+1)..rank.
C13_AxisOutOfBounds ==
    probe.applied =>
        LET rank == Len(probe.input_shapes[1])
        IN  /\ (/\ probe.op.name = "transpose"
                /\ \/ probe.op.args.dim0 \notin (0 - rank)..(rank - 1)
                   \/ probe.op.args.dim1 \notin (0 - rank)..(rank - 1))
                   => probe.infer = <<>>
            /\ (/\ probe.op.name = "unsqueeze"
                /\ probe.op.args.dim \notin (0 - rank - 1)..rank)
                   => probe.infer = <<>>

\* C14: dependency ordering.  In the traversal of infer_shapes and of
\* Graph.forward, a step that invokes infer_shape / forward of an operation
\* node starts in a state where every direct input of the node has its shape /
\* tensor memoized.
C14_InputsBeforeInvoke ==
    [][(pc = "walk" /\ probe'.invoked # <<>>)
          => \A i \in Range(inputs[probe'.invoked[1]]) : Memo(probe.mode)[i] # <<>>]_vars

\* C14 is exercised: Graph.forward invoked the forward of a two-input operation
C14_Witness ==
    /\ pc = "walk"
    /\ probe.mode = "tensor"
    /\ probe.invoked # <<>>
    /\ Len(inputs[probe.invoked[1]]) = 2

\* C15: call arity error.  A call of the compiled artifact with a number of
\* tensors other than the number of declared input nodes raises and leaves
\* the graph and every node as they were.
C15_ArityErrorLeavesGraph ==
    [][(/\ pc = "ready" /\ pc' = "called" /\ lastOp' = "call"
        /\ Len(probe'.args) # Len(input_nodes))
          => (probe'.res = <<>> /\ G' = G)]_vars

\* C15 is exercised: a graph with one declared input was called with two tensors
C15_Witness ==
    /\ pc = "called"
    /\ probe.call = "module"
    /\ Len(input_nodes) = 1
    /\ Len(probe.args) = 2
    /\ probe.res = <<>>

\* the mapping has a name that no declared input node bears, or the name of a
\* declared input node that is not a Data node
BadInputName(items) ==
    \E i \in 1..Len(items) :
        \/ \A n \in Range(input_nodes) : name[n] # items[i].name
        \/ \E n \in Range(input_nodes) : name[n] = items[i].name /\ ~IsData(kind[n])

\* C16: unknown input name error.  Graph.forward raises and returns no outputs
\* when the mapping has a name that is not the name of a declared input node,
\* or the name of a declared input that is not a Data node.
C16_BadInputNameRaises ==
    [][(/\ pc = "ready" /\ pc' = "called" /\ lastOp' = "forward"
        /\ BadInputName(probe'.args))
          => probe'.res = <<>>]_vars

\* C16 is exercised: forward was given the name of a declared input node that
\* is an Operation node, after a valid name
C16_Witness ==
    /\ pc = "called"
    /\ probe.call = "forward"
    /\ Len(probe.args) = 2
    /\ probe.args[1].name = name[input_nodes[1]]
    /\ \E n \in Range(input_nodes) : name[n] = probe.args[2].name /\ ~IsData(kind[n])
    /\ probe.res = <<>>

\* C17: result form of the compiled artifact.  A call that returns gives a
\* single tensor, the one of the declared output, exactly when output_nodes
\* has exactly one entry, and else a sequence with one tensor per entry of
\* output_nodes, in the order of output_nodes.
C17_ResultForm ==
    (pc = "called" /\ probe.call = "module" /\ probe.res # <<>>)
        => LET r == probe.res[1]
           IN  /\ r.single <=> Len(output_nodes) = 1
               /\ r.single => r.value = tensor[output_nodes[1]]
               /\ ~r.single =>
                     /\ Len(r.value) = Len(output_nodes)
                     /\ \A i \in 1..Len(output_nodes) :
                            <<r.value[i]>> = tensor[output_nodes[i]]

\* C17 is exercised: a call returned the tensors of two declared outputs that
\* differ
C17_Witness ==
    /\ pc = "called" /\ probe.call = "module" /\ probe.res # <<>>
    /\ Len(output_nodes) = 2
    /\ ~probe.res[1].single
    /\ probe.res[1].value[1] # probe.res[1].value[2]

\* an Operation node all of whose inputs are Data nodes tagged CONSTANT
Foldable(g, n) ==
    /\ IsOperation(g.kind[n])
    /\ \A i \in Range(g.inputs[n]) : IsConstant(g.kind[i])

\* in this step the operation n was replaced by the one new node c, a constant
\* that has the consumers n had and stands in output_nodes if n stood there
FoldedInto(n, c) ==
    /\ DOMAIN kind' = DOMAIN kind \cup {c}
    /\ c \notin DOMAIN kind
    /\ IsConstant(kind'[c])
    /\ name'[c] = ConstName(name[n])
    /\ Contains(nodes', c) /\ ~Contains(nodes', n)
    /\ outputs'[c] = outputs[n]
    /\ \A o \in Range(outputs[n]) :
           ~Contains(inputs'[o], n) /\ Count(inputs'[o], c) = Count(inputs[o], n)
    /\ Contains(output_nodes, n) => Contains(output_nodes', c)
    /\ ~Contains(output_nodes', n)

\* C18: constant folding fixed point.  When consteval returns, no Operation
\* node of `nodes` has all of its inputs CONSTANT Data nodes; and each iteration
\* that folds replaces one such operation by one new CONSTANT Data node that
\* takes over all of its consumers and, if the operation was a declared output,
\* its place in output_nodes.
C18_ConstevalFixedPoint ==
    [][(pc = "consteval" /\ pc' # "raised")
          => /\ pc' = "ready" => \A n \in Range(nodes') : ~Foldable(G', n)
             /\ pc' = "consteval" =>
                   \E n \in Range(nodes) : Foldable(G, n) /\ FoldedInto(n, NewHandle(G))]_vars

\* C18 is exercised: consteval returned after it folded a declared output that
\* has a consumer, whose other input is not a constant
C18_Witness ==
    /\ pc = "ready" /\ lastOp = "consteval"
    /\ \E c \in DOMAIN kind :
           /\ c > 5
           /\ IsConstant(kind[c])
           /\ Contains(output_nodes, c)
           /\ \E o \in Range(outputs[c]) :
                  Contains(nodes, o) /\ \E i \in Range(inputs[o]) : ~IsConstant(kind[i])

\* the nodes indexed under a base name
Indexed(g, base) == IF HasKey(g, base) THEN Range(g.nodes_by_name[base]) ELSE {}

\* node.get_shape(), <<>> if it raises
ShapeOf(g, n) == GetShape(g, g.shape, n).res

\* an add with exactly 2 inputs, one of them a zero constant
AddRewritable(g, n) ==
    /\ Len(g.inputs[n]) = 2
    /\ \E i \in Range(g.inputs[n]) : IsZeroTensor(g, i)

\* a matmul with exactly 2 inputs, one of them an identity constant, unless both
\* are and the shape of the first differs from the shape of the matmul
MatmulRewritable(g, n) ==
    /\ Len(g.inputs[n]) = 2
    /\ \E i \in Range(g.inputs[n]) : IsOneTensor(g, i)
    /\ ~(/\ \A i \in Range(g.inputs[n]) : IsOneTensor(g, i)
         /\ ShapeOf(g, g.inputs[n][1]) # ShapeOf(g, n))

\* a transpose b fed by a transpose a whose only output is b and whose input
\* has the shape of b
TransposeRewritable(g, b) ==
    \E a \in Range(g.inputs[b]) :
        /\ IsTranspose(g.kind[a])
        /\ g.outputs[a] = <<b>>
        /\ g.inputs[a] # <<>>
        /\ ShapeOf(g, g.inputs[a][1]) = ShapeOf(g, b)

\* C19: identity/transpose fixed point.  When sum_identity, matmul_identity or
\* transpose_cancelation returns, no node indexed under the base name of the
\* pass (add, matmul, transpose) satisfies the rewrite condition of the pass.
C19_RewriteFixedPoint ==
    [][(pc' = "ready")
          => /\ pc = "sum_identity" =>
                   \A n \in Indexed(G', <<"add">>) : ~AddRewritable(G', n)
             /\ pc = "matmul_identity" =>
                   \A n \in Indexed(G', <<"matmul">>) : ~MatmulRewritable(G', n)
             /\ pc = "transpose_cancelation" =>
                   \A n \in Indexed(G', <<"transpose">>) : ~TransposeRewritable(G', n)]_vars

\* the list s without the occurrences of x
RemoveAll(s, x) == SelectSeq(s, LAMBDA e : e # x)

\* C20: splice-out redirection.  When an iteration of consteval, sum_identity
\* or matmul_identity removes an operation n in favour of a replacement r (the
\* new constant, or an input of n), the inputs of every former consumer c of n
\* are afterwards the inputs c had without the occurrences of n, followed by r
\* once per occurrence removed.
C20_SpliceOutAppends ==
    [][(pc \in {"consteval", "sum_identity", "matmul_identity"} /\ pc' = pc)
          => \A n \in Range(nodes) :
                (IsOperation(kind[n]) /\ ~Contains(nodes', n))
                   => \E r \in (DOMAIN kind' \ DOMAIN kind) \cup Range(inputs[n]) :
                         \A c \in Range(outputs[n]) :
                             inputs'[c] = RemoveAll(inputs[c], n)
                                             \o [i \in 1..Count(inputs[c], n) |-> r]]_vars

\* C20 is exercised: consteval has just folded an operation into a new constant,
\* which now ends the inputs of a consumer after an input that is not a constant
C20_Witness ==
    /\ pc = "consteval" /\ lastOp = "consteval"
    /\ \E r \in DOMAIN kind, c \in Range(nodes) :
           /\ r > 5
           /\ Len(inputs[c]) = 2
           /\ inputs[c][2] = r
           /\ ~IsConstant(kind[inputs[c][1]])

\* C21: a shared first transpose is never cancelled.  An iteration of
\* transpose_cancelation deletes a transpose only in a pair a -> b of transposes
\* with a.outputs exactly [b], both deleted; and a pair a -> b whose first
\* transpose has another consumer keeps both nodes and all their edges.
C21_SharedTransposeKept ==
    [][(pc = "transpose_cancelation" /\ pc' # "raised")
          => /\ \A a \in Range(nodes) :
                   (IsTranspose(kind[a]) /\ ~Contains(nodes', a))
                      => \/ \E b \in Range(outputs[a]) :
                               /\ outputs[a] = <<b>>
                               /\ IsTranspose(kind[b]) /\ ~Contains(nodes', b)
                         \/ \E a0 \in Range(inputs[a]) :
                               /\ outputs[a0] = <<a>>
                               /\ IsTranspose(kind[a0]) /\ ~Contains(nodes', a0)
             /\ \A b \in Range(nodes) : \A a \in Range(inputs[b]) :
                   (/\ IsTranspose(kind[a]) /\ IsTranspose(kind[b])
                    /\ \E c \in Range(outputs[a]) : c # b)
                      => /\ Contains(nodes', b)
                         /\ Contains(nodes', a) <=> Contains(nodes, a)
                         /\ inputs'[a] = inputs[a] /\ outputs'[a] = outputs[a]
                         /\ inputs'[b] = inputs[b] /\ outputs'[b] = outputs[b]]_vars

\* C21 is exercised: transpose_cancelation returned and left a pair that only
\* the second consumer of the first transpose kept from being cancelled
C21_Witness ==
    /\ pc = "ready" /\ lastOp = "transpose_cancelation"
    /\ \E b \in Range(nodes) : \E a \in Range(inputs[b]) :
           /\ IsTranspose(kind[a]) /\ IsTranspose(kind[b])
           /\ Contains(nodes, a)
           /\ Len(outputs[a]) = 2
           /\ inputs[a] # <<>>
           /\ ShapeOf(G, inputs[a][1]) = ShapeOf(G, b)

\* a matmul with 2 inputs, both identity constants, the first of a shape other
\* than the shape of the matmul
GuardFails(g, n) ==
    /\ Len(g.inputs[n]) = 2
    /\ \A i \in Range(g.inputs[n]) : IsOneTensor(g, i)
    /\ ShapeOf(g, g.inputs[n][1]) # ShapeOf(g, n)

\* C22: matmul both-identity guard.  An iteration of matmul_identity leaves a
\* matmul whose guard fails in nodes and in the index, with its inputs, the
\* inputs in nodes with their edge to it, and its entry in output_nodes; and
\* when no other matmul can be rewritten the iteration changes nothing and the
\* pass returns.
C22_BothIdentityGuard ==
    [][(pc = "matmul_identity")
          => \A n \in Indexed(G, <<"matmul">>) :
                GuardFails(G, n)
                   => /\ Contains(nodes', n) /\ n \in Indexed(G', <<"matmul">>)
                      /\ inputs'[n] = inputs[n] /\ outputs'[n] = outputs[n]
                      /\ Contains(output_nodes', n) <=> Contains(output_nodes, n)
                      /\ \A i \in Range(inputs[n]) :
                            /\ Contains(nodes', i) <=> Contains(nodes, i)
                            /\ Count(outputs'[i], n) = Count(outputs[i], n)
                            /\ inputs'[i] = inputs[i]
                      /\ (\A m \in Indexed(G, <<"matmul">>) : ~MatmulRewritable(G, m))
                            => /\ SameStructure(G, G')
                               /\ input_nodes' = input_nodes
                               /\ pc' = "ready"]_vars

\* C22 is exercised: matmul_identity returned and a matmul of the identity
\* matrix and a vector of ones, of the shape of the vector, is still indexed
C22_Witness ==
    /\ pc = "ready" /\ lastOp = "matmul_identity"
    /\ \E n \in Indexed(G, <<"matmul">>) : GuardFails(G, n) /\ Contains(nodes, n)

\* C23: dead producer removal in consteval.  When an iteration of consteval
\* folds an operation n, each constant input c of n that was in nodes loses its
\* edges to n, and is removed from nodes and from the name index if and only
\* if it then has no consumer left; this also when n consumed c more than once.
C23_DeadProducerRemoval ==
    [][(pc = "consteval" /\ pc' = "consteval")
          => \A n \in Range(nodes) :
                (IsOperation(kind[n]) /\ ~Contains(nodes', n))
                   => \A c \in Range(inputs[n]) :
                         Contains(nodes, c)
                            => /\ outputs'[c] = RemoveAll(outputs[c], n)
                               /\ Contains(nodes', c) <=> RemoveAll(outputs[c], n) # <<>>
                               /\ c \in Indexed(G', BaseName(name[c]))
                                     <=> RemoveAll(outputs[c], n) # <<>>]_vars

\* C23 is exercised: consteval has just folded an operation that consumed a
\* constant twice, and the constant, which feeds another node, is still in nodes
C23_Witness ==
    /\ pc = "consteval" /\ lastOp = "consteval"
    /\ \E n \in DOMAIN kind, c \in Range(nodes) :
           /\ IsOperation(kind[n]) /\ ~Contains(nodes, n)
           /\ IsConstant(kind[c])
           /\ Count(inputs[n], c) = 2
           /\ outputs[c] # <<>> /\ ~Contains(outputs[c], n)

\* no node the pass scans satisfies the rewrite condition of the pass
NoCandidate(pass, g) ==
    CASE pass = "consteval" ->
           \A n \in Range(g.nodes) : ~Foldable(g, n)
      [] pass = "sum_identity" ->
           \A n \in Indexed(g, <<"add">>) : ~AddRewritable(g, n)
      [] pass = "matmul_identity" ->
           \A n \in Indexed(g, <<"matmul">>) : ~MatmulRewritable(g, n)
      [] pass = "transpose_cancelation" ->
           \A n \in Indexed(g, <<"transpose">>) : ~TransposeRewritable(g, n)

\* C24: a pass without a candidate is a no-op.  When no node satisfies the
\* rewrite condition of a pass, also when no node is indexed under its base
\* name, the pass returns without raising and leaves nodes, the name index, the
\* input and output lists of every node, input_nodes and output_nodes as they were.
C24_NoCandidateNoOp ==
    [][(pc \in Passes /\ NoCandidate(pc, G))
          => /\ pc' = "ready"
             /\ SameStructure(G, G')
             /\ input_nodes' = input_nodes]_vars

\* C24 is exercised: sum_identity returned on a graph that has an add, without
\* a zero input, and the three operations of the configuration are still in nodes
C24_Witness ==
    /\ pc = "ready" /\ lastOp = "sum_identity"
    /\ {n \in DOMAIN kind : IsOperation(kind[n])} \subseteq Range(nodes)
    /\ \E n \in Indexed(G, <<"add">>) : Len(inputs[n]) = 2

\* C25: memoized single evaluation.  Within one call of Graph.forward, through
\* the work queue and the collection of the declared outputs, the forward of
\* each node is invoked at most once.
C25_ForwardAtMostOnce ==
    (pc # "build" /\ probe.mode = "tensor")
        => \A n \in DOMAIN probe.calls : probe.calls[n] <= 1

\* C25 is exercised: forward returned, and it invoked once the forward of an
\* operation that two entries of the work queue and a declared output name
C25_Witness ==
    /\ pc = "ready" /\ lastOp = "forward"
    /\ \E n \in Range(output_nodes) :
           /\ IsOperation(kind[n])
           /\ Len(outputs[n]) = 2
           /\ probe.calls[n] = 1

\* C26: no stale results across calls.  The second of two consecutive calls,
\* each with a value for every declared input, returns what a freshly built
\* copy of the graph, with no tensor memoized, returns for the same inputs.
C26_NoStaleResults ==
    pc = "recalled"
        => probe.res = ModuleCall([G EXCEPT !.tensor = [n \in DOMAIN tensor |-> <<>>]],
                                  probe.args).res

\* C27: removed operations are never executed.  After an iteration of
\* sum_identity or matmul_identity removed an operation from nodes, no node
\* that remains in nodes has the removed operation in its outputs.
C27_RemovedNotInOutputs ==
    [][(pc \in {"sum_identity", "matmul_identity"} /\ pc' = pc)
          => \A n \in Range(nodes) :
                (IsOperation(kind[n]) /\ ~Contains(nodes', n))
                   => \A m \in Range(nodes') : ~Contains(outputs'[m], n)]_vars

\* C28: memoized shapes stay valid under rewriting.  After a pass, or the
\* pipeline, returned, every Operation node of nodes has a memoized shape, and
\* its infer_shape applied to the shapes of its inputs, in their order, gives it.
C28_MemoizedShapesValid ==
    AfterPassState
        => \A n \in Range(nodes) :
              IsOperation(kind[n])
                 => /\ shape[n] # <<>>
                    /\ \A i \in Range(inputs[n]) : ShapeOf(G, i) # <<>>
                    /\ InferShape(kind[n].op,
                                  [k \in 1..Len(inputs[n]) |-> ShapeOf(G, inputs[n][k])[1]])
                          = shape[n]

\* C29: matmul identity elimination preserves shape.  Whenever an iteration of
\* matmul_identity removes a matmul node, replacing it by the input it keeps
\* (the first non-identity input, or the first input when both are identity
\* constants), the shape of the kept input is the shape of the matmul node.
C29_IdentityKeepsShape ==
    [][(pc = "matmul_identity")
          => \A n \in Indexed(G, <<"matmul">>) :
                (Contains(nodes, n) /\ ~Contains(nodes', n))
                   => LET non_identity_inputs ==
                              SelectSeq(inputs[n], LAMBDA i : ~IsOneTensor(G, i))
                          node_to_keep == IF non_identity_inputs # <<>>
                                          THEN non_identity_inputs[1] ELSE inputs[n][1]
                      IN  /\ ShapeOf(G, n) # <<>>
                          /\ ShapeOf(G, node_to_keep) = ShapeOf(G, n)]_vars

\* C30: declared outputs keep their positions.  Every pass leaves output_nodes
\* with the length it had, and each entry is the node it was, or stands in the
\* place of a node that the pass took out of output_nodes (its replacement).
C30_OutputsKeepPositions ==
    [][(PassStep /\ lastOp' \in Passes)
          => /\ Len(output_nodes') = Len(output_nodes)
             /\ \A i \in 1..Len(output_nodes) :
                   \/ output_nodes'[i] = output_nodes[i]
                   \/ ~Contains(output_nodes', output_nodes[i])]_vars

\* C31: node set closed under inputs.  After infer_shapes returned, every input
\* of every node of nodes is itself in nodes.
C31_NodesClosedUnderInputs ==
    (pc = "ready" /\ lastOp = "infer_shapes")
        => \A n \in Range(nodes) : \A i \in Range(inputs[n]) : Contains(nodes, i)

\* C32: pipeline fixed point.  After optimize returned, optimize run again
\* returns too and rewrites nothing: nodes, the name index, the edges and
\* output_nodes stay as they are.
C32_PipelineFixedPoint ==
    (pc = "ready" /\ lastOp = "optimize")
        => /\ ~Optimize(G).raised
           /\ SameStructure(G, Optimize(G).g)

\* C32 is exercised: optimize returned after consteval folded an operation into
\* a zero constant and sum_identity then removed an add of that constant and
\* the constant itself
C32_Witness ==
    /\ pc = "ready" /\ lastOp = "optimize"
    /\ \E c \in DOMAIN kind :
           /\ c > 5
           /\ IsZeroTensor(G, c)
           /\ ~Contains(nodes, c)
           /\ \E n \in DOMAIN kind :
                  /\ IsOperation(kind[n]) /\ kind[n].op.name = "add"
                  /\ ~Contains(nodes, n)
                  /\ Contains(inputs[n], c)

\* C33: pipeline completeness for transposes.  After optimize returned, nodes
\* holds no transpose b with an input a that is a transpose, whose only
\* consumer among the nodes of nodes is b, and whose input has the shape of b.
C33_NoTransposePairLeft ==
    (pc = "ready" /\ lastOp = "optimize")
        => \A b \in Range(nodes) :
              IsTranspose(kind[b])
                 => ~\E a \in Range(inputs[b]) :
                        /\ IsTranspose(kind[a])
                        /\ {m \in Range(outputs[a]) : Contains(nodes, m)} = {b}
                        /\ inputs[a] # <<>>
                        /\ ShapeOf(G, b) # <<>>
                        /\ ShapeOf(G, inputs[a][1]) = ShapeOf(G, b)

====
